---- MODULE Spec2Model ----
(***************************************************************************)
(* The pantry ordering application's storage service                       *)
(* (src/services/storageService.ts): a catalog of items and a collection   *)
(* of orders kept either in localStorage (local mode) or in two Supabase   *)
(* tables (remote mode), behind one set of operations.                     *)
(*                                                                         *)
(* The file holds two versions of the service: the asynchronous one with   *)
(* the local/remote branch (lines 1-367) and the earlier synchronous,      *)
(* local-only one (lines 369-561).  Both are modelled; the operations of   *)
(* the synchronous version carry the suffix Sync.                          *)
(***************************************************************************)
EXTENDS Integers, Sequences, FiniteSets, TLC

\* ------------------------------------------------------------------ bounds

\* Identifiers handed out to catalog items (crypto.randomUUID / gen_random_uuid).
MaxItems == 2
\* Orders placed in one behaviour.
MaxOrders == 2
\* Line items of one order.
MaxLines == 2
\* Largest quantity of a candidate item or of an order line.
MaxQty == 1
\* Last reading of the clock (new Date()); order timestamps range over 0..MaxTime.
MaxTime == 1
\* The notifications kept on their way at most.
MaxInbox == 1

\* ------------------------------------------------------------------ values

\* completedAt / completed_at absent (undefined locally, null remotely).
NoTime == -1
\* expiryDate not supplied by the candidate (undefined).
NoDate == "none"

Units == {"cup", "can"}
Categories == {"Other", "Food"}
\* The empty string is what a caller of the typed API passes for no date.
ExpiryDates == {NoDate, "", "2025-12-31"}
Statuses == {"pending", "preparing", "delivered", "cancelled"}

\* Names are sequences of characters, so that trim() and toLowerCase() are
\* computed and two different names can share a normalized form.
NameInputs == { <<"T">>, <<" ", "t">>, <<"j">> }

\* ------------------------------------------------------------------ strings

\* String.prototype.toLowerCase on the characters in use.
ToLowerChar(c) == IF c = "T" THEN "t" ELSE IF c = "J" THEN "j" ELSE c

ToLowerCase(s) == [i \in 1..Len(s) |-> ToLowerChar(s[i])]

RECURSIVE TrimStart(_)
TrimStart(s) == IF s # <<>> /\ Head(s) = " " THEN TrimStart(Tail(s)) ELSE s

RECURSIVE TrimEnd(_)
TrimEnd(s) ==
    IF s # <<>> /\ s[Len(s)] = " " THEN TrimEnd(SubSeq(s, 1, Len(s) - 1)) ELSE s

\* String.prototype.trim
Trim(s) == TrimEnd(TrimStart(s))

\* i.name.trim().toLowerCase()
Normalize(name) == ToLowerCase(Trim(name))

\* Code-point rank of a character, for ORDER BY name.
CharRank(c) ==
    CASE c = " " -> 32
      [] c = "J" -> 74
      [] c = "T" -> 84
      [] c = "j" -> 106
      [] c = "t" -> 116
      [] OTHER -> 0

RECURSIVE NameLeq(_, _)
NameLeq(a, b) ==
    IF a = <<>> THEN TRUE
    ELSE IF b = <<>> THEN FALSE
    ELSE IF CharRank(Head(a)) < CharRank(Head(b)) THEN TRUE
    ELSE IF CharRank(Head(a)) > CharRank(Head(b)) THEN FALSE
    ELSE NameLeq(Tail(a), Tail(b))

\* ------------------------------------------------------------------ sequences

\* Array.prototype.findIndex, 1-based; 0 when nothing matches.
FindIndex(seq, Test(_)) ==
    IF \E i \in 1..Len(seq) : Test(seq[i])
    THEN CHOOSE i \in 1..Len(seq) :
            Test(seq[i]) /\ \A j \in 1..(i - 1) : ~Test(seq[j])
    ELSE 0

\* The orderings of the rows of a table.
Orderings(S) ==
    { f \in [1..Cardinality(S) -> S] : \A i, j \in 1..Cardinality(S) : f[i] = f[j] => i = j }

RECURSIVE SumLines(_, _)
\* The total quantity the lines of an order request of item id.
SumLines(lines, id) ==
    IF lines = <<>> THEN 0
    ELSE (IF Head(lines).itemId = id THEN Head(lines).quantity ELSE 0)
         + SumLines(Tail(lines), id)

\* ------------------------------------------------------------------ state

VARIABLES
    supabase,       \* the client handle is present (remote mode)
    localItems,     \* localStorage[ITEMS_KEY], parsed
    localOrders,    \* localStorage[ORDERS_KEY], parsed
    remoteItems,    \* the rows of table pantry_items
    remoteOrders,   \* the rows of table orders
    now,            \* the clock
    nextItemId,     \* the next fresh item identifier
    nextOrderId,    \* the next fresh order identifier
    ret,            \* the last completed call and what it returned
    addRun,         \* the run of addOrUpdateItem calls under observation
    clients,        \* remote mode: each client's call in progress
    calls,          \* local mode: the asynchronous calls in progress
    savedConfig,    \* localStorage[SUPABASE_CONFIG_KEY]
    realtimeChannel,\* the realtime channel is subscribed
    subscriptions,  \* the channels subscribed and not unsubscribed
    quotaExceeded,  \* localStorage is at its capacity
    inbox,          \* row-change notifications on their way to this process
    view            \* the items the observer (App) last loaded

vars == <<supabase, localItems, localOrders, remoteItems, remoteOrders, now,
          nextItemId, nextOrderId, ret, addRun, clients, calls,
          savedConfig, realtimeChannel, subscriptions, quotaExceeded, inbox, view>>

\* The configuration and the subscription of this process, and the capacity
\* of its localStorage.
session == <<savedConfig, realtimeChannel, subscriptions, quotaExceeded>>

\* What the realtime channel brings and what the observer shows.
feed == <<inbox, view>>

stores == <<localItems, localOrders, remoteItems, remoteOrders>>

\* ------------------------------------------------------------------ records

\* What a call of addOrUpdateItem is given: Omit<PantryItem, 'id' | 'addedDate'>.
Candidates ==
    [name : NameInputs, unit : Units, quantity : 1..MaxQty,
     category : Categories, expiryDate : ExpiryDates]

\* The dedup key of an item or candidate.
KeyOf(i) == <<Normalize(i.name), i.unit>>

\* OrderItem: the reference to the catalog item and the quantity requested.
Lines == [itemId : 1..MaxItems, quantity : 1..MaxQty]

LineSeqs == UNION { [1..n -> Lines] : n \in 1..MaxLines }

\* The order a caller hands to placeOrder (Inventory.tsx, submitOrder): status
\* pending, no completedAt, a timestamp of the caller's choosing.
NewOrder(id, lines, ts) ==
    [id |-> id, roomNumber |-> "101", items |-> lines, status |-> "pending",
     timestamp |-> ts, completedAt |-> NoTime]

\* Stock never grows past this in a behaviour (a guard of the add actions).
MaxStock == 2 * MaxQty

\* ------------------------------------------------------------------ field mapping

\* getItems, remote branch: a row of pantry_items as a PantryItem.
RowToItem(d) ==
    [id |-> d.id, name |-> d.name, quantity |-> d.quantity, unit |-> d.unit,
     category |-> d.category, expiryDate |-> d.expiry_date]

\* getOrders, remote branch: a row of orders as an Order.
RowToOrder(d) ==
    [id |-> d.id, roomNumber |-> d.room_number, items |-> d.items,
     status |-> d.status, timestamp |-> d.timestamp, completedAt |-> d.completed_at]

\* placeOrder, remote branch: the row inserted for an order; completed_at is
\* not sent and takes the column's default, null.
OrderToRow(o) ==
    [id |-> o.id, room_number |-> o.roomNumber, items |-> o.items,
     status |-> o.status, timestamp |-> o.timestamp, completed_at |-> NoTime]

\* ------------------------------------------------------------------ reads

\* select('*').order('name'): the rows by name ascending; rows of equal name
\* come in either order.  A failed read degrades to the empty list.
GetItemsRemote(table, failed) ==
    IF failed THEN { <<>> }
    ELSE { [i \in DOMAIN f |-> RowToItem(f[i])] :
             f \in { g \in Orderings(table) :
                       \A i \in 1..(Len(g) - 1) : NameLeq(g[i].name, g[i + 1].name) } }

\* select('*').order('timestamp', { ascending: false }): newest first; rows of
\* equal timestamp come in either order.  A failed read degrades to the empty list.
GetOrdersRemote(table, failed) ==
    IF failed THEN { <<>> }
    ELSE { [i \in DOMAIN f |-> RowToOrder(f[i])] :
             f \in { g \in Orderings(table) :
                       \A i \in 1..(Len(g) - 1) : g[i].timestamp >= g[i + 1].timestamp } }

\* getItems / getOrders, local branch: the stored array as it is.
GetItemsLocal(stored) == stored

GetOrdersLocal(stored) == stored

\* ------------------------------------------------------------------ addOrUpdateItem

\* items.find(i => i.name.trim().toLowerCase() === normalizedName && i.unit === newItem.unit)
MatchIndex(items, newItem) ==
    LET Same(i) == Normalize(i.name) = Normalize(newItem.name) /\ i.unit = newItem.unit
    IN  FindIndex(items, Same)

\* if (newItem.expiryDate): undefined and the empty string are falsy.
Truthy(d) == d # NoDate /\ d # ""

\* The local merge: quantity added, category and expiryDate overwritten when given.
MergeLocal(existing, newItem) ==
    [existing EXCEPT
        !.quantity = @ + newItem.quantity,
        !.category = IF newItem.category # "Other" THEN newItem.category ELSE @,
        !.expiryDate = IF Truthy(newItem.expiryDate) THEN newItem.expiryDate ELSE @]

\* The new entry: the candidate with a fresh id.
CreateItem(newItem, id) ==
    [id |-> id, name |-> newItem.name, quantity |-> newItem.quantity,
     unit |-> newItem.unit, category |-> newItem.category,
     expiryDate |-> newItem.expiryDate]

\* addOrUpdateItem, local branch: the items written and the message returned.
AddOrUpdateItemLocal(items, newItem, id) ==
    LET k == MatchIndex(items, newItem) IN
    IF k > 0
    THEN LET merged == MergeLocal(items[k], newItem) IN
         [items |-> [i \in 1..Len(items) |->
                        IF items[i].id = merged.id THEN merged ELSE items[i]],
          message |-> "Restocked"]
    ELSE [items |-> <<CreateItem(newItem, id)>> \o items, message |-> "Added"]

\* addOrUpdateItem of the synchronous version.
AddOrUpdateItemSyncResult(items, newItem, id) ==
    LET k == MatchIndex(items, newItem) IN
    IF k > 0
    THEN [items |-> [items EXCEPT ![k] = MergeLocal(items[k], newItem)],
          message |-> "Restocked"]
    ELSE [items |-> <<CreateItem(newItem, id)>> \o items, message |-> "Added"]

\* update({quantity, category, expiry_date}).eq('id', existingItem.id): an
\* undefined expiry_date is not serialized and leaves the column alone.
UpdateItemRow(table, existing, newItem) ==
    { IF r.id = existing.id
      THEN [r EXCEPT
              !.quantity = existing.quantity + newItem.quantity,
              !.category = IF newItem.category # "Other" THEN newItem.category
                           ELSE existing.category,
              !.expiry_date = IF newItem.expiryDate # NoDate THEN newItem.expiryDate
                              ELSE @]
      ELSE r : r \in table }

\* insert([{name, quantity, unit, category, added_date, expiry_date}])
InsertItemRow(table, newItem, id) ==
    table \cup { [id |-> id, name |-> newItem.name, quantity |-> newItem.quantity,
                  unit |-> newItem.unit, category |-> newItem.category,
                  expiry_date |-> newItem.expiryDate] }

\* ------------------------------------------------------------------ deleteItem

\* items.filter(i => i.id !== id)
DeleteItemLocal(items, id) ==
    LET Keep(i) == i.id # id IN SelectSeq(items, Keep)

\* delete().eq('id', id)
DeleteItemRow(table, id) == { r \in table : r.id # id }

\* ------------------------------------------------------------------ placeOrder

\* items.find(i => i.id === orderItem.itemId)
ItemIndex(items, itemId) ==
    LET Is(i) == i.id = itemId IN FindIndex(items, Is)

\* The slip of validating the presence of the item only.
FirstMissingLine(items, lines) ==
    LET Bad(l) == ItemIndex(items, l.itemId) = 0 IN FindIndex(lines, Bad)

\* The validation loop: the first line whose item is missing or short, 0 if none.
FirstBadLine(items, lines) ==
    LET Bad(l) == \/ ItemIndex(items, l.itemId) = 0
                  \/ items[ItemIndex(items, l.itemId)].quantity < l.quantity
    IN  FindIndex(lines, Bad)

\* The error the validation loop returns.
ValidationError(items, lines) ==
    LET b == FirstBadLine(items, lines) IN
    IF b = 0 THEN "none"
    ELSE IF ItemIndex(items, lines[b].itemId) = 0 THEN "missing"
    ELSE "shortage"

RECURSIVE DeductLocal(_, _)
\* The local commit loop: item.quantity -= orderItem.quantity, line after line.
DeductLocal(items, lines) ==
    IF lines = <<>> THEN items
    ELSE LET k == ItemIndex(items, Head(lines).itemId) IN
         DeductLocal(IF k > 0
                     THEN [items EXCEPT ![k].quantity = @ - Head(lines).quantity]
                     ELSE items,
                     Tail(lines))

\* update({ quantity }).eq('id', id)
SetQuantityRow(table, id, q) ==
    { IF r.id = id THEN [r EXCEPT !.quantity = q] ELSE r : r \in table }

RECURSIVE DeductRemoteStoppingAtFailure(_, _, _, _)
\* The slip of leaving the deduction loop at the first update that failed.
DeductRemoteStoppingAtFailure(table, items, lines, failed) ==
    IF lines = <<>> \/ Head(failed) THEN table
    ELSE LET k == ItemIndex(items, Head(lines).itemId) IN
         DeductRemoteStoppingAtFailure(
             IF k > 0
             THEN SetQuantityRow(table, items[k].id,
                                 items[k].quantity - Head(lines).quantity)
             ELSE table,
             items, Tail(lines), Tail(failed))

RECURSIVE DeductRemote(_, _, _, _)
\* The remote deduction loop: each line writes the fetched quantity minus the
\* line's quantity; failed[n] says the n-th update returned an error.
DeductRemote(table, items, lines, failed) ==
    IF lines = <<>> THEN table
    ELSE LET k == ItemIndex(items, Head(lines).itemId) IN
         DeductRemote(IF k > 0 /\ ~Head(failed)
                      THEN SetQuantityRow(table, items[k].id,
                                          items[k].quantity - Head(lines).quantity)
                      ELSE table,
                      items, Tail(lines), Tail(failed))

\* from('orders').insert([{id, room_number, items, status, timestamp}])
InsertOrderRow(table, order) == table \cup { OrderToRow(order) }

\* The slip of orders.push(order): the new order goes last.
UnshiftAsPush(orders, order) == Append(orders, order)

\* orders.unshift(order)
Unshift(orders, order) == <<order>> \o orders

\* ------------------------------------------------------------------ updateOrderStatus

\* (status === 'delivered' || status === 'cancelled') ? new Date().toISOString() : null
CompletedAtFor(status, time) ==
    IF status \in {"delivered", "cancelled"} THEN time ELSE NoTime

\* The slip of deleting an order when it is cancelled.
UpdateOrderStatusLocalDeletingCancelled(orders, orderId, status, time) ==
    LET Keep(o) == ~(o.id = orderId /\ status = "cancelled")
        Is(o) == o.id = orderId
        kept == SelectSeq(orders, Keep)
        k == FindIndex(kept, Is)
    IN  IF k = 0 THEN kept
        ELSE [kept EXCEPT
                ![k].status = status,
                ![k].completedAt = CompletedAtFor(status, time)]

\* updateOrderStatus, local branch: the orders after the call.
UpdateOrderStatusLocal(orders, orderId, status, time) ==
    LET Is(o) == o.id = orderId
        k == FindIndex(orders, Is)
        completedAt == CompletedAtFor(status, time)
    IN  IF k = 0 THEN orders
        ELSE [orders EXCEPT
                ![k].status = status,
                ![k].completedAt = IF completedAt # NoTime THEN completedAt ELSE @]

\* The slip of leaving out the filter on the id.
UpdateOrderRowWithoutFilter(table, orderId, status, time) ==
    { [r EXCEPT !.status = status, !.completed_at = CompletedAtFor(status, time)] :
      r \in table }

\* update({ status, completed_at: completedAt }).eq('id', orderId)
UpdateOrderRow(table, orderId, status, time) ==
    { IF r.id = orderId
      THEN [r EXCEPT !.status = status, !.completed_at = CompletedAtFor(status, time)]
      ELSE r : r \in table }

\* updateOrderStatus of the synchronous version: the orders after the call.
UpdateOrderStatusSyncResult(orders, orderId, status, time) ==
    LET Is(o) == o.id = orderId
        k == FindIndex(orders, Is)
    IN  IF k = 0 THEN orders
        ELSE [orders EXCEPT
                ![k].status = status,
                ![k].completedAt = IF status \in {"delivered", "cancelled"} THEN time
                                   ELSE @]

\* The slip of deducting inside the validation loop: the lines before the
\* failing one have taken their stock when the call returns the failure.
PlaceOrderLocalDeductingWhileValidating(items, orders, order) ==
    LET bad == FirstBadLine(items, order.items) IN
    IF bad # 0
    THEN [items |-> DeductLocal(items, SubSeq(order.items, 1, bad - 1)),
          orders |-> orders, success |-> FALSE,
          error |-> ValidationError(items, order.items), line |-> bad]
    ELSE [items |-> DeductLocal(items, order.items),
          orders |-> Unshift(orders, order), success |-> TRUE,
          error |-> "none", line |-> 0]

\* placeOrder, local branch: what is stored after the call and what it returns.
\* A failed validation returns before anything is written.
PlaceOrderLocal(items, orders, order) ==
    LET bad == FirstBadLine(items, order.items) IN
    IF bad # 0
    THEN [items |-> items, orders |-> orders, success |-> FALSE,
          error |-> ValidationError(items, order.items), line |-> bad]
    ELSE [items |-> DeductLocal(items, order.items),
          orders |-> Unshift(orders, order), success |-> TRUE,
          error |-> "none", line |-> 0]

\* placeOrder of the synchronous version: validate, deduct, unshift, save.
PlaceOrderSyncResult(items, orders, order) ==
    LET bad == FirstBadLine(items, order.items) IN
    IF bad # 0
    THEN [items |-> items, orders |-> orders, success |-> FALSE,
          error |-> ValidationError(items, order.items), line |-> bad]
    ELSE [items |-> DeductLocal(items, order.items),
          orders |-> Unshift(orders, order), success |-> TRUE,
          error |-> "none", line |-> 0]

\* ------------------------------------------------------------------ calls

\* What the observers load: the items and the orders of these collections.
Loaded(items, orders) == [items |-> items, orders |-> orders]

\* The content of the local store, as the observers load it.
LocalContent(items, orders) ==
    Loaded({ items[i] : i \in DOMAIN items }, { orders[i] : i \in DOMAIN orders })

\* The content of the backend, as the observers load it.
RemoteContent(items, orders) ==
    Loaded({ RowToItem(r) : r \in items }, { RowToOrder(r) : r \in orders })

\* What a completed call leaves for its caller.
Ret(op, mode, success, error, line, orderId, message, remoteErr) ==
    [op |-> op, mode |-> mode, success |-> success, error |-> error, line |-> line,
     orderId |-> orderId, message |-> message, remoteErr |-> remoteErr,
     lines |-> <<>>, result |-> <<>>, newItem |-> <<>>, fetchErr |-> FALSE,
     signal |-> FALSE, itemId |-> 0, threshold |-> 0, unsubscribed |-> FALSE,
     updateErrs |-> <<>>, remoteSuccess |-> FALSE]

NoCall == Ret("none", "none", TRUE, "none", 0, 0, "", FALSE)

\* A call of the local branch that ended in the exception localStorage.setItem
\* throws at capacity: the caller has no result.
Thrown(op, orderId) == Ret(op, "local", FALSE, "exception", 0, orderId, "", FALSE)

\* The slip of publishing the change before the store is written.
NotifiedBeforeWrite(before, after) == before

\* notifyChange() after the write: the listeners run inside dispatchEvent and
\* read localStorage there, so they load the store as written.
Notified(before, after) == after

\* The backend publishes a row change to the channel of this process, when it
\* has one.
Published(changed) ==
    IF realtimeChannel /\ changed THEN MaxInbox ELSE inbox

\* The local store as it is and as it will be.
Before == LocalContent(localItems, localOrders)

After(items, orders) == LocalContent(items, orders)

NoRun == [key |-> <<>>, sum |-> 0]

\* getSupabaseConfig() returns null.
NoConfig == "none"

\* The configurations a caller may hand to initSupabase: one that createClient
\* accepts and one that it throws on (a URL it cannot parse).
Configs == {"valid", "invalid"}

Clients == {1, 2}

CallIds == {1, 2}

IdleClient == [pc |-> "idle", newItem |-> <<>>, items |-> <<>>]

IdleCall == [pc |-> "idle", order |-> <<>>, items |-> <<>>, orders |-> <<>>,
             overlapped |-> FALSE]

\* isCloud()
IsCloud == supabase

Init ==
    /\ supabase \in BOOLEAN
    /\ localItems = <<>>
    /\ localOrders = <<>>
    /\ remoteItems = {}
    /\ remoteOrders = {}
    /\ now = 0
    /\ nextItemId = 1
    /\ nextOrderId = 1
    /\ ret = NoCall
    /\ addRun = NoRun
    /\ clients = [c \in Clients |-> IdleClient]
    /\ calls = [c \in CallIds |-> IdleCall]
    /\ savedConfig = IF supabase THEN "valid" ELSE NoConfig
    /\ realtimeChannel = FALSE
    /\ subscriptions = 0
    /\ quotaExceeded = FALSE
    /\ inbox = 0
    /\ view = [items |-> {}, orders |-> {}]

\* new Date() moves on.
Tick ==
    /\ now < MaxTime
    /\ now' = now + 1
    /\ ret' = NoCall
    /\ UNCHANGED <<supabase, session, feed, stores, nextItemId, nextOrderId, addRun, clients, calls>>

\* addOrUpdateItem(newItem), awaited, local branch.
AddOrUpdateItemInLocal(newItem) ==
    /\ ~IsCloud
    /\ LET k == MatchIndex(GetItemsLocal(localItems), newItem)
           r == AddOrUpdateItemLocal(GetItemsLocal(localItems), newItem, nextItemId)
       IN  /\ IF k > 0 THEN localItems[k].quantity + newItem.quantity <= MaxStock
                       ELSE nextItemId <= MaxItems
           /\ \E threw \in BOOLEAN :
                 /\ threw => quotaExceeded
                 /\ localItems' = IF threw THEN localItems ELSE r.items
                 /\ nextItemId' = IF k > 0 \/ threw THEN nextItemId ELSE nextItemId + 1
                 /\ view' = IF threw THEN view ELSE Notified(Before, After(r.items, localOrders))
                 /\ ret' = IF threw
                           THEN [Thrown("addOrUpdateItem", 0) EXCEPT !.newItem = newItem]
                           ELSE [Ret("addOrUpdateItem", "local", TRUE, "none", 0, 0,
                                     r.message, FALSE)
                                 EXCEPT !.newItem = newItem, !.signal = TRUE]
    /\ UNCHANGED <<supabase, session, inbox, localOrders, remoteItems, remoteOrders, now,
                   nextOrderId, clients, calls>>

\* addOrUpdateItem(newItem), awaited, remote branch: the read, then one update
\* or one insert, each of which may return an error.
AddOrUpdateItemInRemote(newItem) ==
    /\ IsCloud
    /\ \E fetchFailed, writeFailed \in BOOLEAN :
       \E items \in GetItemsRemote(remoteItems, fetchFailed) :
          LET k == MatchIndex(items, newItem) IN
          /\ IF k > 0
             THEN /\ items[k].quantity + newItem.quantity <= MaxStock
                  /\ remoteItems' = IF writeFailed THEN remoteItems
                                    ELSE UpdateItemRow(remoteItems, items[k], newItem)
                  /\ nextItemId' = nextItemId
             ELSE /\ nextItemId <= MaxItems
                  /\ remoteItems' = IF writeFailed THEN remoteItems
                                    ELSE InsertItemRow(remoteItems, newItem, nextItemId)
                  /\ nextItemId' = IF writeFailed THEN nextItemId ELSE nextItemId + 1
          /\ ret' = [Ret("addOrUpdateItem", "remote", ~writeFailed,
                         IF writeFailed THEN "write" ELSE "none", 0, 0,
                         IF writeFailed THEN "" ELSE IF k > 0 THEN "Restocked" ELSE "Added",
                         fetchFailed \/ writeFailed)
                     EXCEPT !.newItem = newItem, !.fetchErr = fetchFailed]
    /\ inbox' = Published(remoteItems' # remoteItems)
    /\ UNCHANGED <<supabase, session, view, localItems, localOrders, remoteOrders, now, nextOrderId,
                   clients, calls>>

\* addOrUpdateItem(newItem) of the synchronous version.
AddOrUpdateItemSync(newItem) ==
    /\ ~IsCloud
    /\ LET k == MatchIndex(localItems, newItem)
           r == AddOrUpdateItemSyncResult(localItems, newItem, nextItemId)
       IN  /\ IF k > 0 THEN localItems[k].quantity + newItem.quantity <= MaxStock
                       ELSE nextItemId <= MaxItems
           /\ \E threw \in BOOLEAN :
                 /\ threw => quotaExceeded
                 /\ localItems' = IF threw THEN localItems ELSE r.items
                 /\ nextItemId' = IF k > 0 \/ threw THEN nextItemId ELSE nextItemId + 1
                 /\ view' = IF threw THEN view ELSE Notified(Before, After(r.items, localOrders))
                 /\ ret' = IF threw
                           THEN [Thrown("addOrUpdateItem", 0) EXCEPT !.newItem = newItem]
                           ELSE [Ret("addOrUpdateItem", "local", TRUE, "none", 0, 0,
                                     r.message, FALSE)
                                 EXCEPT !.newItem = newItem, !.signal = TRUE]
    /\ UNCHANGED <<supabase, session, inbox, localOrders, remoteItems, remoteOrders, now,
                   nextOrderId, clients, calls>>

\* deleteItem(id), awaited.
DeleteItem(id) ==
    /\ \/ /\ ~IsCloud
          /\ \E threw \in BOOLEAN :
                /\ threw => quotaExceeded
                /\ localItems' = IF threw THEN localItems
                                 ELSE DeleteItemLocal(GetItemsLocal(localItems), id)
                /\ view' = IF threw THEN view
                           ELSE Notified(Before, After(localItems', localOrders))
                /\ ret' = IF threw THEN [Thrown("deleteItem", 0) EXCEPT !.itemId = id]
                          ELSE [Ret("deleteItem", "local", TRUE, "none", 0, 0, "", FALSE)
                                EXCEPT !.signal = TRUE, !.itemId = id]
          /\ UNCHANGED remoteItems
       \/ /\ IsCloud
          /\ \E failed \in BOOLEAN :
                /\ remoteItems' = IF failed THEN remoteItems
                                  ELSE DeleteItemRow(remoteItems, id)
                /\ ret' = [Ret("deleteItem", "remote", TRUE, "none", 0, 0, "", FALSE)
                           EXCEPT !.itemId = id, !.remoteErr = failed]
          /\ UNCHANGED <<localItems, view>>
    /\ inbox' = Published(remoteItems' # remoteItems)
    /\ UNCHANGED <<supabase, session, localOrders, remoteOrders, now, nextItemId,
                   nextOrderId, addRun, clients, calls>>

\* placeOrder(order), awaited, local branch.
PlaceOrderInLocal(lines, ts) ==
    /\ ~IsCloud
    /\ nextOrderId <= MaxOrders
    /\ LET order == NewOrder(nextOrderId, lines, ts)
           r == PlaceOrderLocal(GetItemsLocal(localItems), GetOrdersLocal(localOrders), order)
       IN  \E wrote \in 0..2 :
              /\ wrote < 2 => (quotaExceeded /\ r.success)
              /\ localItems' = IF wrote >= 1 THEN r.items ELSE localItems
              /\ localOrders' = IF wrote = 2 THEN r.orders ELSE localOrders
              /\ nextOrderId' = IF r.success /\ wrote = 2 THEN nextOrderId + 1
                                ELSE nextOrderId
              /\ view' = IF r.success /\ wrote = 2
                         THEN Notified(Before, After(r.items, r.orders)) ELSE view
              /\ ret' = IF wrote < 2
                        THEN [Thrown("placeOrder", order.id) EXCEPT !.lines = lines]
                        ELSE [Ret("placeOrder", "local", r.success, r.error, r.line,
                                  order.id, "", FALSE)
                              EXCEPT !.lines = lines, !.signal = r.success]
    /\ UNCHANGED <<supabase, session, inbox, remoteItems, remoteOrders, now, nextItemId,
                   addRun, clients, calls>>

\* placeOrder(order) of the synchronous version.
PlaceOrderSync(lines, ts) ==
    /\ ~IsCloud
    /\ nextOrderId <= MaxOrders
    /\ LET order == NewOrder(nextOrderId, lines, ts)
           r == PlaceOrderSyncResult(localItems, localOrders, order)
       IN  \E wrote \in 0..2 :
              /\ wrote < 2 => (quotaExceeded /\ r.success)
              /\ localItems' = IF wrote >= 1 THEN r.items ELSE localItems
              /\ localOrders' = IF wrote = 2 THEN r.orders ELSE localOrders
              /\ nextOrderId' = IF r.success /\ wrote = 2 THEN nextOrderId + 1
                                ELSE nextOrderId
              /\ view' = IF r.success /\ wrote = 2
                         THEN Notified(Before, After(r.items, r.orders)) ELSE view
              /\ ret' = IF wrote < 2
                        THEN [Ret("placeOrder", "local", FALSE, "storage", 0, order.id,
                                  "", FALSE) EXCEPT !.lines = lines]
                        ELSE [Ret("placeOrder", "local", r.success, r.error, r.line,
                                  order.id, "", FALSE)
                              EXCEPT !.lines = lines, !.signal = r.success]
    /\ UNCHANGED <<supabase, session, inbox, remoteItems, remoteOrders, now, nextItemId,
                   addRun, clients, calls>>

\* placeOrder(order), awaited, remote branch: the read, the validation, the
\* insert of the order, then one update per line; each remote call may fail.
PlaceOrderInRemote(lines, ts) ==
    /\ IsCloud
    /\ nextOrderId <= MaxOrders
    /\ \E fetchFailed \in BOOLEAN :
       \E items \in GetItemsRemote(remoteItems, fetchFailed) :
          LET order == NewOrder(nextOrderId, lines, ts)
              bad == FirstBadLine(items, lines)
          IN  IF bad # 0
              THEN /\ UNCHANGED <<remoteItems, remoteOrders, nextOrderId>>
                   /\ ret' = [Ret("placeOrder", "remote", FALSE,
                                  ValidationError(items, lines), bad, order.id, "",
                                  fetchFailed)
                              EXCEPT !.lines = lines, !.fetchErr = fetchFailed]
              ELSE \/ /\ UNCHANGED <<remoteItems, remoteOrders, nextOrderId>>
                      /\ ret' = [Ret("placeOrder", "remote", FALSE, "insert", 0,
                                     order.id, "", TRUE) EXCEPT !.lines = lines]
                   \/ \E updateFailed \in [1..Len(lines) -> BOOLEAN] :
                      /\ remoteOrders' = InsertOrderRow(remoteOrders, order)
                      /\ remoteItems' = DeductRemote(remoteItems, items, lines,
                                                     updateFailed)
                      /\ nextOrderId' = nextOrderId + 1
                      /\ ret' = [Ret("placeOrder", "remote", TRUE, "none", 0, order.id,
                                     "", \E n \in DOMAIN updateFailed : updateFailed[n])
                                 EXCEPT !.lines = lines, !.updateErrs = updateFailed]
    /\ inbox' = Published(remoteItems' # remoteItems \/ remoteOrders' # remoteOrders)
    /\ UNCHANGED <<supabase, session, view, localItems, localOrders, now, nextItemId, addRun,
                   clients, calls>>

\* updateOrderStatus(orderId, status), awaited.
UpdateOrderStatus(orderId, status) ==
    /\ \/ /\ ~IsCloud
          /\ LET found == \E i \in DOMAIN localOrders : localOrders[i].id = orderId
                 orders == UpdateOrderStatusLocal(GetOrdersLocal(localOrders), orderId,
                                                  status, now)
             IN  \E threw \in BOOLEAN :
                    /\ threw => (quotaExceeded /\ found)
                    /\ localOrders' = IF threw THEN localOrders ELSE orders
                    /\ view' = IF threw THEN view
                               ELSE Notified(Before, After(localItems, orders))
                    /\ ret' = IF threw THEN Thrown("updateOrderStatus", orderId)
                              ELSE [Ret("updateOrderStatus", "local", TRUE, "none", 0,
                                        orderId, "", FALSE) EXCEPT !.signal = TRUE]
          /\ UNCHANGED remoteOrders
       \/ /\ IsCloud
          /\ \E failed \in BOOLEAN :
                /\ remoteOrders' = IF failed THEN remoteOrders
                                   ELSE UpdateOrderRow(remoteOrders, orderId, status, now)
                /\ ret' = Ret("updateOrderStatus", "remote", TRUE, "none", 0, orderId,
                              "", failed)
          /\ UNCHANGED <<localOrders, view>>
    /\ inbox' = Published(remoteOrders' # remoteOrders)
    /\ UNCHANGED <<supabase, session, localItems, remoteItems, now, nextItemId,
                   nextOrderId, addRun, clients, calls>>

\* updateOrderStatus(orderId, status) of the synchronous version.
UpdateOrderStatusSync(orderId, status) ==
    /\ ~IsCloud
    /\ LET found == \E i \in DOMAIN localOrders : localOrders[i].id = orderId
           orders == UpdateOrderStatusSyncResult(localOrders, orderId, status, now)
       IN  \E threw \in BOOLEAN :
              /\ threw => (quotaExceeded /\ found)
              /\ localOrders' = IF threw THEN localOrders ELSE orders
              /\ view' = IF threw \/ ~found THEN view
                         ELSE Notified(Before, After(localItems, orders))
              /\ ret' = IF threw THEN Thrown("updateOrderStatus", orderId)
                        ELSE [Ret("updateOrderStatus", "local", TRUE, "none", 0,
                                  orderId, "", FALSE) EXCEPT !.signal = found]
    /\ UNCHANGED <<supabase, session, inbox, localItems, remoteItems, remoteOrders, now,
                   nextItemId, nextOrderId, addRun, clients, calls>>

\* getOrders(), awaited; the caller keeps the ids in the order returned.  When
\* the call comes right after a successful placeOrder, orderId is that order's.
GetOrders ==
    /\ \E failed \in BOOLEAN :
       \E orders \in IF IsCloud THEN GetOrdersRemote(remoteOrders, failed)
                     ELSE { GetOrdersLocal(localOrders) } :
          /\ IsCloud \/ ~failed
          /\ ret' = [Ret("getOrders", IF IsCloud THEN "remote" ELSE "local", TRUE, "none",
                         0, IF ret.op = "placeOrder" /\ ret.success THEN ret.orderId ELSE 0,
                         "", failed)
                     EXCEPT !.result = [i \in DOMAIN orders |-> orders[i].id]]
    /\ UNCHANGED <<supabase, session, feed, stores, now, nextItemId, nextOrderId, addRun, clients, calls>>

\* getItems(), awaited; the caller keeps the ids in the order returned.
GetItems ==
    /\ \E failed \in BOOLEAN :
       \E items \in IF IsCloud THEN GetItemsRemote(remoteItems, failed)
                    ELSE { GetItemsLocal(localItems) } :
          /\ IsCloud \/ ~failed
          /\ ret' = [Ret("getItems", IF IsCloud THEN "remote" ELSE "local", TRUE, "none",
                         0, 0, "", failed)
                     EXCEPT !.result = [i \in DOMAIN items |-> items[i].id]]
    /\ UNCHANGED <<supabase, session, feed, stores, now, nextItemId, nextOrderId, addRun, clients, calls>>

\* The candidates of the catalog-and-placement behaviours: two items of
\* different names.
StockCandidates ==
    { c \in Candidates :
        \/ c.name = <<"T">> /\ c.unit = "cup" /\ c.category = "Food" /\ c.expiryDate = NoDate
        \/ c.name = <<"j">> /\ c.unit = "cup" /\ c.category = "Other" /\ c.expiryDate = NoDate }

\* The catalog and the placement of orders: the calls of one client, each
\* awaited before the next is issued.
Next ==
    \/ \E c \in StockCandidates : AddOrUpdateItemInLocal(c) /\ UNCHANGED addRun
    \/ \E c \in StockCandidates : AddOrUpdateItemInRemote(c) /\ UNCHANGED addRun
    \/ \E c \in StockCandidates : AddOrUpdateItemSync(c) /\ UNCHANGED addRun
    \/ \E id \in 1..MaxItems : DeleteItem(id)
    \/ \E lines \in LineSeqs, ts \in 0..MaxTime : PlaceOrderInLocal(lines, ts)
    \/ \E lines \in LineSeqs, ts \in 0..MaxTime : PlaceOrderSync(lines, ts)
    \/ \E lines \in LineSeqs, ts \in 0..MaxTime : PlaceOrderInRemote(lines, ts)
    \/ GetOrders
    \/ GetItems

Spec == Init /\ [][Next]_vars

\* ------------------------------------------------------------------ views

\* The catalog of the active store, as items.
Catalog ==
    IF IsCloud THEN { RowToItem(r) : r \in remoteItems }
    ELSE { localItems[i] : i \in DOMAIN localItems }

\* The order collection of the active store, as orders.
Recorded ==
    IF IsCloud THEN { RowToOrder(r) : r \in remoteOrders }
    ELSE { localOrders[i] : i \in DOMAIN localOrders }

\* The line cannot be served from the catalog: its item is missing or short.
LineFails(catalog, l) ==
    ~\E i \in catalog : i.id = l.itemId /\ i.quantity >= l.quantity

\* ------------------------------------------------------------------ C1

\* C1: when a line of the order handed to placeOrder names an item that is
\* missing from the catalog or holds less than the line requests, the call
\* returns success = false and the catalog and the order collection are what
\* they were before the call, whichever line it is, in local and remote mode.
C1_RejectedOrderChangesNothing ==
    [][(/\ ret'.op = "placeOrder"
        /\ \E n \in DOMAIN ret'.lines : LineFails(Catalog, ret'.lines[n]))
       => (~ret'.success /\ UNCHANGED stores)]_vars

\* A remote placeOrder was rejected for its second line, whose item is short,
\* with an order already recorded and the first line's item in stock.
C1_Witness ==
    /\ ret.op = "placeOrder" /\ ret.mode = "remote"
    /\ ~ret.success /\ ret.error = "shortage" /\ ret.line = 2
    /\ remoteOrders # {}
    /\ ~LineFails(Catalog, ret.lines[1])

\* ------------------------------------------------------------------ C2

\* C2: placeOrder never takes an item's quantity below zero: after any
\* sequence of awaited calls, every stored quantity is >= 0, also when an
\* order names the same item in more than one line.
C2_QuantityNeverNegative ==
    /\ \A i \in DOMAIN localItems : localItems[i].quantity >= 0
    /\ \A r \in remoteItems : r.quantity >= 0

\* ------------------------------------------------------------------ C3

\* C3: a placeOrder that succeeds (with no remote error) leaves every catalog
\* item with its quantity before the call minus the sum of the quantities of
\* the order's lines that name it, everything else about the item as it was,
\* and the order recorded.  (Stated for the orders whose lines, summed per
\* item, the stock covers.)
C3_SuccessDeductsEveryLine ==
    [][(/\ ret'.op = "placeOrder" /\ ret'.success /\ ~ret'.remoteErr
        /\ \A i \in Catalog : SumLines(ret'.lines, i.id) <= i.quantity)
       => /\ Catalog' =
               { [i EXCEPT !.quantity = @ - SumLines(ret'.lines, i.id)] : i \in Catalog }
          /\ \E o \in Recorded' : o.id = ret'.orderId /\ o.items = ret'.lines]_vars

\* A remote placeOrder succeeded, with no remote error, for an order of two
\* lines that name the same item, and the item is still in stock.
C3_Witness ==
    /\ ret.op = "placeOrder" /\ ret.mode = "remote" /\ ret.success /\ ~ret.remoteErr
    /\ Len(ret.lines) = 2 /\ ret.lines[1].itemId = ret.lines[2].itemId
    /\ \E i \in Catalog : i.id = ret.lines[1].itemId /\ i.quantity > 0

\* ------------------------------------------------------------------ C10

\* The timestamp the order of that id carries in the active store.
StampOf(orderId) == (CHOOSE o \in Recorded : o.id = orderId).timestamp

\* C10 as stated: getOrders right after a successful placeOrder(o) returns o
\* first, whatever timestamp o carries and whatever is stored, in both modes
\* (stated here for a getOrders whose read does not fail, and for an o whose
\* timestamp no other stored order carries).
C10_PlacedOrderIsFirst ==
    (/\ ret.op = "getOrders" /\ ret.orderId # 0 /\ ~ret.remoteErr
     /\ \A o \in Recorded : o.id # ret.orderId => o.timestamp # StampOf(ret.orderId))
    => (ret.result # <<>> /\ ret.result[1] = ret.orderId)

\* C10 amended: getOrders right after a successful placeOrder(o), when its
\* read does not fail, returns o first in local mode whatever timestamp o
\* carries, and in remote mode when o's timestamp is later than the timestamp
\* of every other stored order.
C10_PlacedOrderIsFirstWhenNewest ==
    (/\ ret.op = "getOrders" /\ ret.orderId # 0 /\ ~ret.remoteErr
     /\ IsCloud => \A o \in Recorded :
                      o.id # ret.orderId => o.timestamp < StampOf(ret.orderId))
    => (ret.result # <<>> /\ ret.result[1] = ret.orderId)

\* getOrders ran right after the second order was placed, locally, the new
\* order carrying an older timestamp than the stored one, and returned it first.
C10_Witness ==
    /\ ret.op = "getOrders" /\ ret.orderId # 0 /\ ~IsCloud
    /\ Len(ret.result) = 2 /\ ret.result[1] = ret.orderId
    /\ \E o \in Recorded : o.id # ret.orderId /\ o.timestamp > StampOf(ret.orderId)

\* ------------------------------------------------------------------ C11

\* C11: getOrders returns the stored orders sorted by timestamp descending:
\* of every two adjacent orders returned, the earlier has a timestamp at least
\* that of the later, in local and in remote mode.
C11_OrdersNewestFirst ==
    ret.op = "getOrders" =>
        \A i \in 1..(Len(ret.result) - 1) :
            StampOf(ret.result[i]) >= StampOf(ret.result[i + 1])

\* ------------------------------------------------------------------ C12

\* The name of the catalog item of this id.
NameOf(itemId) == (CHOOSE i \in Catalog : i.id = itemId).name

\* C12: getItems returns the catalog sorted by name ascending, in local and in
\* remote mode.
C12_ItemsByName ==
    ret.op = "getItems" =>
        \A i \in 1..(Len(ret.result) - 1) :
            NameLeq(NameOf(ret.result[i]), NameOf(ret.result[i + 1]))

\* ------------------------------------------------------------------ order lifecycle

\* The candidate that stocks the catalog of the lifecycle behaviours.
StatusCandidates ==
    { c \in Candidates :
        c.name = <<"T">> /\ c.unit = "cup" /\ c.category = "Food" /\ c.expiryDate = NoDate }

\* Orders of one line.
SingleLines == { l \in LineSeqs : Len(l) = 1 }

\* The life of orders: they are placed (stamped with the current time, as
\* Inventory.tsx does) and their status is updated, one awaited call at a time.
NextStatus ==
    \/ Tick
    \/ \E c \in StatusCandidates : AddOrUpdateItemInLocal(c) /\ UNCHANGED addRun
    \/ \E c \in StatusCandidates : AddOrUpdateItemInRemote(c) /\ UNCHANGED addRun
    \/ \E lines \in SingleLines : PlaceOrderInLocal(lines, now)
    \/ \E lines \in SingleLines : PlaceOrderSync(lines, now)
    \/ \E lines \in SingleLines : PlaceOrderInRemote(lines, now)
    \/ \E id \in 1..MaxOrders, status \in Statuses : UpdateOrderStatus(id, status)
    \/ \E id \in 1..MaxOrders, status \in Statuses : UpdateOrderStatusSync(id, status)

SpecStatus == Init /\ [][NextStatus]_vars

Terminal == {"delivered", "cancelled"}

\* ------------------------------------------------------------------ C6

\* C6: order status is monotonic: once an order is delivered or cancelled, no
\* later updateOrderStatus call changes its status.
C6_TerminalStatusIsFinal ==
    [][\A o \in Recorded : \A p \in Recorded' :
          (o.status \in Terminal /\ p.id = o.id) => p.status = o.status]_vars

\* ------------------------------------------------------------------ C7

\* C7: in every reachable state, in local and remote mode, an order whose
\* status is pending or preparing has no completedAt.
C7_OpenOrderHasNoCompletedAt ==
    \A o \in Recorded : o.status \in {"pending", "preparing"} => o.completedAt = NoTime

\* ------------------------------------------------------------------ C8

\* C8: completedAt is set exactly once: once an order's completedAt has a
\* value, no later updateOrderStatus call changes or clears it.
C8_CompletedAtIsSetOnce ==
    [][\A o \in Recorded : \A p \in Recorded' :
          (o.completedAt # NoTime /\ p.id = o.id) => p.completedAt = o.completedAt]_vars

\* ------------------------------------------------------------------ runs of addOrUpdateItem

\* The run after a call of addOrUpdateItem(newItem): a run of calls of one
\* normalized (name, unit) begins at a catalog that holds no such item, and
\* sums the quantities of its calls that returned success.
TrackAdd(newItem) ==
    LET key == KeyOf(newItem)
        present == \E i \in Catalog : KeyOf(i) = key
        added == IF ret'.success THEN newItem.quantity ELSE 0
    IN  IF ~present THEN [key |-> key, sum |-> added]
        ELSE IF addRun.key = key THEN [key |-> key, sum |-> addRun.sum + added]
        ELSE NoRun

\* The candidates of the runs: every name, category and expiryDate in cups,
\* and one candidate in cans.
AddCandidates ==
    { c \in Candidates :
        \/ c.unit = "cup"
        \/ c.name = <<"T">> /\ c.category = "Food" /\ c.expiryDate = NoDate }

\* Awaited calls of addOrUpdateItem, and nothing else.
NextAdd ==
    \/ \E c \in AddCandidates : AddOrUpdateItemInLocal(c) /\ addRun' = TrackAdd(c)
    \/ \E c \in AddCandidates : AddOrUpdateItemInRemote(c) /\ addRun' = TrackAdd(c)
    \/ \E c \in AddCandidates : AddOrUpdateItemSync(c) /\ addRun' = TrackAdd(c)

SpecAdd == Init /\ [][NextAdd]_vars

\* ------------------------------------------------------------------ C4

\* C4: after a sequence of awaited addOrUpdateItem calls of one normalized
\* (name, unit), begun at a catalog with no such item, the catalog holds
\* exactly one item of that (name, unit) and its quantity is the sum of the
\* quantities submitted (here: by the calls that returned success).
C4_OneItemWithTheSum ==
    addRun.sum > 0 =>
        /\ Cardinality({ i \in Catalog : KeyOf(i) = addRun.key }) = 1
        /\ \A i \in Catalog : KeyOf(i) = addRun.key => i.quantity = addRun.sum

\* ------------------------------------------------------------------ C13

\* The record the merge of the candidate into a stored item is to leave: the
\* quantity added, the category taken unless it is Other, the expiryDate
\* taken when the candidate supplies one.
Merged(i, c) ==
    [i EXCEPT
        !.quantity = @ + c.quantity,
        !.category = IF c.category # "Other" THEN c.category ELSE @,
        !.expiryDate = IF c.expiryDate # NoDate /\ c.expiryDate # "" THEN c.expiryDate
                       ELSE @]

\* C13: when addOrUpdateItem merges into an existing item, the stored category
\* becomes the candidate's only if that is not Other, the stored expiryDate
\* becomes the candidate's only if the candidate supplies one, and the merged
\* record is the same in local and in remote mode.
C13_MergeTakesWhatIsSupplied ==
    [][(/\ ret'.op = "addOrUpdateItem"
        /\ ret'.success /\ ~ret'.remoteErr
        /\ ret'.message = "Restocked")
       => \E i \in Catalog :
             /\ KeyOf(i) = KeyOf(ret'.newItem)
             /\ Catalog' = (Catalog \ {i}) \cup {Merged(i, ret'.newItem)}]_vars

\* ------------------------------------------------------------------ C17

\* C17: in remote mode, when the read of the items fails inside
\* addOrUpdateItem or placeOrder, the call returns a failure result and makes
\* no insert and no update on the backend.
C17_FailedReadIsSurfaced ==
    [][(ret'.op \in {"addOrUpdateItem", "placeOrder"} /\ ret'.fetchErr)
       => (~ret'.success /\ UNCHANGED <<remoteItems, remoteOrders>>)]_vars

\* ------------------------------------------------------------------ concurrent clients

\* Remote mode, several devices: a client's addOrUpdateItem is two requests,
\* the read of the items and then the update or insert decided from what was
\* read; another client's requests may come between them.  Every request
\* succeeds here (Spec has the failures).

\* const items = await getItems()
AddFetch(c, newItem) ==
    /\ IsCloud
    /\ clients[c].pc = "idle"
    /\ \E items \in GetItemsRemote(remoteItems, FALSE) :
          clients' = [clients EXCEPT ![c] = [pc |-> "write", newItem |-> newItem,
                                             items |-> items]]
    /\ UNCHANGED <<supabase, session, feed, stores, now, nextItemId, nextOrderId, ret, addRun, calls>>

\* The update of the matching item read, or the insert when none was read.
AddWrite(c) ==
    /\ IsCloud
    /\ clients[c].pc = "write"
    /\ LET items == clients[c].items
           newItem == clients[c].newItem
           k == MatchIndex(items, newItem)
       IN  /\ IF k > 0
              THEN /\ items[k].quantity + newItem.quantity <= MaxStock
                   /\ remoteItems' = UpdateItemRow(remoteItems, items[k], newItem)
                   /\ nextItemId' = nextItemId
              ELSE /\ nextItemId <= MaxItems
                   /\ remoteItems' = InsertItemRow(remoteItems, newItem, nextItemId)
                   /\ nextItemId' = nextItemId + 1
           /\ ret' = Ret("addOrUpdateItem", "remote", TRUE, "none", 0, 0,
                         IF k > 0 THEN "Restocked" ELSE "Added", FALSE)
    /\ clients' = [clients EXCEPT ![c] = IdleClient]
    /\ inbox' = Published(remoteItems' # remoteItems)
    /\ UNCHANGED <<supabase, session, view, localItems, localOrders, remoteOrders, now, nextOrderId,
                   addRun, calls>>

InitRace == Init /\ supabase

\* The candidates the racing clients submit: two names of one normalized
\* form, and a second name.
RaceCandidates ==
    { c \in Candidates :
        \/ c.name = <<"T">> /\ c.unit = "cup" /\ c.category = "Food" /\ c.expiryDate = NoDate
        \/ c.name = <<" ", "t">> /\ c.unit = "cup" /\ c.category = "Other"
                                 /\ c.expiryDate = "2025-12-31"
        \/ c.name = <<"j">> /\ c.unit = "cup" /\ c.category = "Other" /\ c.expiryDate = NoDate }

NextRace ==
    \/ \E c \in Clients, newItem \in RaceCandidates : AddFetch(c, newItem)
    \/ \E c \in Clients : AddWrite(c)
    \/ \E id \in 1..MaxItems : IsCloud /\ DeleteItem(id)

SpecRace == InitRace /\ [][NextRace]_vars

\* ------------------------------------------------------------------ C5

\* C5: in every reachable state of the catalog no two items share the same
\* normalized (name, unit), also when two clients run addOrUpdateItem for the
\* same new (name, unit) with their read and insert steps interleaved.
C5_NoTwoItemsShareAKey ==
    \A i, j \in Catalog : KeyOf(i) = KeyOf(j) => i = j

\* ------------------------------------------------------------------ overlapping local calls

\* Local mode, one process: placeOrder suspends at await getItems() and at
\* await getOrders(), so a second placeOrder issued before the first has
\* completed runs between its segments.  A call is marked overlapped when it
\* is in progress together with another one.

InProgress(c) == calls[c].pc # "idle"

NoneInProgress == \A c \in CallIds : ~InProgress(c)

\* placeOrder(order) is called: getItems() reads the stored items.
PlaceStart(c, lines, ts) ==
    /\ ~IsCloud
    /\ ~InProgress(c)
    /\ nextOrderId <= MaxOrders
    /\ calls' = [d \in CallIds |->
                   IF d = c
                   THEN [pc |-> "validate", order |-> NewOrder(nextOrderId, lines, ts),
                         items |-> GetItemsLocal(localItems), orders |-> <<>>,
                         overlapped |-> \E e \in CallIds \ {c} : InProgress(e)]
                   ELSE IF InProgress(d) THEN [calls[d] EXCEPT !.overlapped = TRUE]
                   ELSE calls[d]]
    /\ nextOrderId' = nextOrderId + 1
    /\ UNCHANGED <<supabase, session, feed, stores, now, nextItemId, ret, addRun, clients>>

\* The validation loop over the items read; then, when it passes, getOrders()
\* reads the stored orders.
PlaceValidate(c) ==
    /\ ~IsCloud
    /\ calls[c].pc = "validate"
    /\ LET order == calls[c].order
           bad == FirstBadLine(calls[c].items, order.items)
       IN  IF bad # 0
           THEN /\ calls' = [calls EXCEPT ![c] = [IdleCall EXCEPT
                                                   !.overlapped = calls[c].overlapped]]
                /\ ret' = [Ret("placeOrder", "local", FALSE,
                               ValidationError(calls[c].items, order.items), bad,
                               order.id, "", FALSE) EXCEPT !.lines = order.items]
           ELSE /\ calls' = [calls EXCEPT ![c].pc = "commit",
                                          ![c].orders = GetOrdersLocal(localOrders)]
                /\ UNCHANGED ret
    /\ UNCHANGED <<supabase, session, feed, stores, now, nextItemId, nextOrderId, addRun, clients>>

\* The deduction from the items read, the unshift into the orders read, and
\* the two writes.
PlaceCommit(c) ==
    /\ ~IsCloud
    /\ calls[c].pc = "commit"
    /\ LET order == calls[c].order
           r == PlaceOrderLocal(calls[c].items, calls[c].orders, order)
       IN  \E wrote \in 0..2 :
              /\ wrote < 2 => quotaExceeded
              /\ localItems' = IF wrote >= 1 THEN r.items ELSE localItems
              /\ localOrders' = IF wrote = 2 THEN r.orders ELSE localOrders
              /\ view' = IF wrote = 2 THEN Notified(Before, After(r.items, r.orders))
                         ELSE view
              /\ ret' = IF wrote < 2
                        THEN [Thrown("placeOrder", order.id) EXCEPT !.lines = order.items]
                        ELSE [Ret("placeOrder", "local", r.success, r.error, r.line,
                                  order.id, "", FALSE)
                              EXCEPT !.lines = order.items, !.signal = TRUE]
    /\ calls' = [calls EXCEPT ![c] = [IdleCall EXCEPT !.overlapped = calls[c].overlapped]]
    /\ UNCHANGED <<supabase, session, inbox, remoteItems, remoteOrders, now, nextItemId,
                   nextOrderId, addRun, clients>>

\* Orders placed by calls that may overlap in local mode; every other call,
\* and every call in remote mode, is awaited.
NextOverlap ==
    \/ \E c \in CallIds, lines \in SingleLines, ts \in 0..MaxTime : PlaceStart(c, lines, ts)
    \/ \E c \in CallIds : PlaceValidate(c)
    \/ \E c \in CallIds : PlaceCommit(c)
    \/ \E lines \in SingleLines, ts \in 0..MaxTime : PlaceOrderInRemote(lines, ts)
    \/ \E c \in StatusCandidates :
          NoneInProgress /\ AddOrUpdateItemInLocal(c) /\ UNCHANGED addRun
    \/ \E c \in StatusCandidates : AddOrUpdateItemInRemote(c) /\ UNCHANGED addRun
    \/ \E id \in 1..MaxItems : NoneInProgress /\ DeleteItem(id)
    \/ \E id \in 1..MaxOrders, status \in Statuses :
          NoneInProgress /\ UpdateOrderStatus(id, status)

SpecOverlap == Init /\ [][NextOverlap]_vars

\* ------------------------------------------------------------------ C9

\* What placeOrder records of an order and nothing may rewrite.
Core(o) ==
    [id |-> o.id, roomNumber |-> o.roomNumber, items |-> o.items,
     timestamp |-> o.timestamp]

\* Every recorded order is still recorded after the step, with the same id,
\* roomNumber, items and timestamp.
OrdersKept == \A o \in Recorded : \E p \in Recorded' : Core(p) = Core(o)

\* The step completes a local placeOrder that overlapped another call.
OverlappedCommit ==
    \E c \in CallIds :
        calls[c].pc = "commit" /\ calls'[c].pc = "idle" /\ calls[c].overlapped

\* C9 as stated: an order once recorded stays in the order collection in every
\* later state with its id, roomNumber, items and timestamp, also in local
\* mode when a second placeOrder is issued before the first has completed.
C9_RecordedOrdersStay == [][OrdersKept]_vars

\* C9 amended: an order once recorded stays in the order collection with its
\* id, roomNumber, items and timestamp through every step except the
\* completion of a local placeOrder that was in progress together with
\* another placeOrder of the same process.
C9_RecordedOrdersStayWhenAwaited == [][~OverlappedCommit => OrdersKept]_vars

\* Two orders are recorded locally, the second by a placeOrder that completed
\* without overlapping another, and the first has since been cancelled.
C9_Witness ==
    /\ ~IsCloud /\ Len(localOrders) = 2
    /\ \A c \in CallIds : ~InProgress(c) /\ ~calls[c].overlapped
    /\ \E i \in DOMAIN localOrders : localOrders[i].status = "cancelled"

\* ------------------------------------------------------------------ configuration

\* initSupabase(config): the record is written first; createClient throws on a
\* configuration it cannot use and the catch returns false; otherwise the
\* handle is assigned and setupRealtime() subscribes a new channel (after
\* unsubscribing the one before).
InitSupabaseResult(config, handle, channel) ==
    IF config = "invalid"
    THEN [savedConfig |-> config, supabase |-> handle, realtimeChannel |-> channel,
          success |-> FALSE]
    ELSE [savedConfig |-> config, supabase |-> TRUE, realtimeChannel |-> TRUE,
          success |-> TRUE]

\* The module is evaluated with this record saved: initSupabase(savedConfig)
\* runs before the declaration of setupRealtime has been evaluated, so once
\* the handle is assigned the call of setupRealtime throws into the catch and
\* no channel is subscribed.
AutoInit(saved) ==
    [supabase |-> saved = "valid", realtimeChannel |-> FALSE]

\* The slip of leaving the configuration record behind at teardown.
DisconnectKeepingRecord(saved) ==
    [savedConfig |-> saved, supabase |-> FALSE, realtimeChannel |-> FALSE]

\* disconnectSupabase(): unsubscribe, remove the record, drop the handle.
Disconnect(saved) ==
    [savedConfig |-> NoConfig, supabase |-> FALSE, realtimeChannel |-> FALSE]

\* The slip of subscribing the new channel with the one before left standing.
SetupRealtimeStacking(channel, standing) == standing + 1

\* setupRealtime(): if (realtimeChannel) realtimeChannel.unsubscribe(); then a
\* new channel is created and subscribed.
SetupRealtime(channel, standing) ==
    (IF channel THEN standing - 1 ELSE standing) + 1

\* disconnectSupabase(): if (realtimeChannel) realtimeChannel.unsubscribe()
Unsubscribe(channel, standing) ==
    IF channel THEN standing - 1 ELSE standing

\* initSupabase(config), called from the settings (no page reload here).
InitSupabase(config) ==
    /\ LET r == InitSupabaseResult(config, supabase, realtimeChannel)
       IN  /\ savedConfig' = r.savedConfig
           /\ supabase' = r.supabase
           /\ realtimeChannel' = r.realtimeChannel
           /\ subscriptions' = IF r.success
                                THEN SetupRealtime(realtimeChannel, subscriptions)
                                ELSE subscriptions
           /\ ret' = [Ret("initSupabase", "none", r.success, "none", 0, 0, "", FALSE)
                      EXCEPT !.unsubscribed = r.success /\ realtimeChannel]
    /\ inbox' = 0
    /\ UNCHANGED <<stores, now, nextItemId, nextOrderId, addRun, clients, calls,
                   quotaExceeded, view>>

\* disconnectSupabase(); its notifyChange() makes the observers load the local
\* store.
DisconnectSupabase ==
    /\ LET r == Disconnect(savedConfig)
       IN  /\ savedConfig' = r.savedConfig
           /\ supabase' = r.supabase
           /\ realtimeChannel' = r.realtimeChannel
    /\ subscriptions' = Unsubscribe(realtimeChannel, subscriptions)
    /\ ret' = [Ret("disconnectSupabase", "none", TRUE, "none", 0, 0, "", FALSE)
               EXCEPT !.unsubscribed = realtimeChannel]
    /\ inbox' = 0
    /\ view' = LocalContent(localItems, localOrders)
    /\ UNCHANGED <<stores, now, nextItemId, nextOrderId, addRun, clients, calls,
                   quotaExceeded>>

\* window.location.reload(): the page and its connections are gone, the module
\* is evaluated again over what localStorage holds, and the observers mount
\* and load.
Reload ==
    /\ LET r == AutoInit(savedConfig)
       IN  /\ supabase' = r.supabase
           /\ realtimeChannel' = r.realtimeChannel
           /\ subscriptions' = 0
           /\ \E failed \in BOOLEAN :
                 /\ r.supabase \/ ~failed
                 /\ view' = IF ~r.supabase THEN LocalContent(localItems, localOrders)
                            ELSE IF failed THEN Loaded({}, {})
                            ELSE RemoteContent(remoteItems, remoteOrders)
    /\ ret' = Ret("reload", "none", TRUE, "none", 0, 0, "", FALSE)
    /\ inbox' = 0
    /\ UNCHANGED <<stores, now, nextItemId, nextOrderId, addRun, clients, calls,
                   savedConfig, quotaExceeded>>

\* Configuring, tearing down and reloading, with awaited calls that add items
\* and place orders in between.
NextConfig ==
    \/ \E config \in Configs : InitSupabase(config)
    \/ DisconnectSupabase
    \/ Reload
    \/ \E c \in StatusCandidates : AddOrUpdateItemInLocal(c) /\ UNCHANGED addRun
    \/ \E c \in StatusCandidates : AddOrUpdateItemInRemote(c) /\ UNCHANGED addRun
    \/ \E lines \in SingleLines : PlaceOrderInLocal(lines, now)
    \/ \E lines \in SingleLines : PlaceOrderInRemote(lines, now)
    \/ \E id \in 1..MaxItems : DeleteItem(id)
    \/ GetItems

SpecConfig == Init /\ [][NextConfig]_vars

\* ------------------------------------------------------------------ C14

\* C14: if initSupabase fails it returns false and the prior state is
\* untouched: the configuration record, the client handle and the active mode
\* are as before the call.
C14_FailedConfigureChangesNothing ==
    [][(ret'.op = "initSupabase" /\ ~ret'.success)
       => UNCHANGED <<savedConfig, supabase, realtimeChannel>>]_vars

\* ------------------------------------------------------------------ C15

\* C15: after disconnectSupabase, from any state, the handle is absent, the
\* configuration record is absent, no subscription stands and the backend's
\* items and orders are as before the call; and while the handle is absent
\* every Service call takes the local path and leaves the backend alone.
C15_TeardownRevertsToLocal ==
    [][/\ ret'.op = "disconnectSupabase"
          => /\ ~supabase' /\ savedConfig' = NoConfig /\ ~realtimeChannel'
             /\ UNCHANGED <<remoteItems, remoteOrders>>
       /\ (~supabase /\ ret'.op \notin {"initSupabase", "reload", "disconnectSupabase"})
          => /\ ret'.mode = "local"
             /\ UNCHANGED <<remoteItems, remoteOrders>>]_vars

\* An item has been added on the local path after a teardown that left a
\* stocked backend behind, and a page reload has kept the mode local.
C15_Witness ==
    /\ ~supabase /\ savedConfig = NoConfig /\ ~realtimeChannel
    /\ remoteItems # {} /\ remoteOrders # {}
    /\ localItems # <<>>
    /\ ret.op = "addOrUpdateItem" /\ ret.mode = "local"

\* ------------------------------------------------------------------ seeding

\* sampleItems, cut down to two entries of different names.
SampleItems ==
    << [name |-> <<"T">>, quantity |-> 1, unit |-> "cup", category |-> "Food",
        expiryDate |-> "2025-12-31"],
       [name |-> <<"j">>, quantity |-> 1, unit |-> "cup", category |-> "Other",
        expiryDate |-> "2025-12-31"] >>

\* What one awaited addOrUpdateItem(newItem) of the remote branch can leave:
\* its read may fail (and then matches nothing), its update or insert may fail.
AddOrUpdateItemRemoteOutcomes(table, newItem, id) ==
    { [table |-> table, nextId |-> id] }
    \cup UNION { { LET k == MatchIndex(items, newItem) IN
                   IF k > 0
                   THEN [table |-> UpdateItemRow(table, items[k], newItem), nextId |-> id]
                   ELSE [table |-> InsertItemRow(table, newItem, id), nextId |-> id + 1]
                   : items \in GetItemsRemote(table, failed) } : failed \in BOOLEAN }

RECURSIVE SeedRemote(_, _, _)
\* for (const item of sampleItems) await addOrUpdateItem(item), remote branch.
SeedRemote(table, samples, id) ==
    IF samples = <<>> THEN { [table |-> table, nextId |-> id] }
    ELSE UNION { SeedRemote(t.table, Tail(samples), t.nextId) :
                   t \in AddOrUpdateItemRemoteOutcomes(table, Head(samples), id) }

RECURSIVE SeedLocal(_, _, _)
\* for (const item of sampleItems) await addOrUpdateItem(item), local branch.
SeedLocal(items, samples, id) ==
    IF samples = <<>> THEN [items |-> items, nextId |-> id]
    ELSE LET k == MatchIndex(items, Head(samples))
             r == AddOrUpdateItemLocal(items, Head(samples), id)
         IN  SeedLocal(r.items, Tail(samples), IF k > 0 THEN id ELSE id + 1)

\* seedInitialData of the synchronous version: saveItems(initial).
SeedSyncResult(samples, id) ==
    [i \in DOMAIN samples |-> CreateItem(samples[i], id + i - 1)]

\* Identifiers for a whole seeding are at hand.
CanSeed == nextItemId + Len(SampleItems) - 1 <= MaxItems + 1

\* seedInitialData(), awaited: the read of the items, the return when any
\* came back, and otherwise one addOrUpdateItem per sample.
SeedInitialData ==
    /\ \/ /\ ~IsCloud
          /\ IF Len(GetItemsLocal(localItems)) > 0
             THEN UNCHANGED <<localItems, nextItemId, view>>
             ELSE /\ CanSeed
                  /\ LET r == SeedLocal(GetItemsLocal(localItems), SampleItems, nextItemId)
                     IN  /\ localItems' = r.items
                         /\ nextItemId' = r.nextId
                         /\ view' = LocalContent(r.items, localOrders)
          /\ ret' = Ret("seedInitialData", "local", TRUE, "none", 0, 0, "", FALSE)
          /\ UNCHANGED <<remoteItems, inbox>>
       \/ /\ IsCloud
          /\ \E failed \in BOOLEAN :
             \E existing \in GetItemsRemote(remoteItems, failed) :
                /\ IF Len(existing) > 0
                   THEN UNCHANGED <<remoteItems, nextItemId>>
                   ELSE /\ CanSeed
                        /\ \A r \in remoteItems : r.quantity < MaxStock
                        /\ \E t \in SeedRemote(remoteItems, SampleItems, nextItemId) :
                              /\ remoteItems' = t.table
                              /\ nextItemId' = t.nextId
                /\ ret' = Ret("seedInitialData", "remote", TRUE, "none", 0, 0, "", failed)
          /\ inbox' = Published(remoteItems' # remoteItems)
          /\ UNCHANGED <<localItems, view>>
    /\ UNCHANGED <<supabase, session, localOrders, remoteOrders, now, nextOrderId,
                   addRun, clients, calls>>

\* seedInitialData() of the synchronous version.
SeedInitialDataSync ==
    /\ ~IsCloud
    /\ IF Len(localItems) > 0
       THEN UNCHANGED <<localItems, nextItemId, view>>
       ELSE /\ CanSeed
            /\ localItems' = SeedSyncResult(SampleItems, nextItemId)
            /\ nextItemId' = nextItemId + Len(SampleItems)
            /\ view' = LocalContent(localItems', localOrders)
    /\ ret' = Ret("seedInitialData", "local", TRUE, "none", 0, 0, "", FALSE)
    /\ UNCHANGED <<supabase, session, inbox, localOrders, remoteItems, remoteOrders, now,
                   nextOrderId, addRun, clients, calls>>

\* Seeding between awaited calls that add and delete items.
NextSeed ==
    \/ SeedInitialData
    \/ SeedInitialDataSync
    \/ \E c \in StockCandidates : AddOrUpdateItemInLocal(c) /\ UNCHANGED addRun
    \/ \E c \in StockCandidates : AddOrUpdateItemInRemote(c) /\ UNCHANGED addRun
    \/ \E id \in 1..(MaxItems + 1) : DeleteItem(id)
    \/ GetItems

SpecSeed == Init /\ [][NextSeed]_vars

\* ------------------------------------------------------------------ C16

\* C16: seedInitialData writes starter items only in local mode with an empty
\* local catalog; with a non-empty catalog it changes nothing, and in remote
\* mode it never inserts anything into the backend.
C16_SeedsOnlyAnEmptyLocalCatalog ==
    [][ret'.op = "seedInitialData"
       => \/ UNCHANGED stores
          \/ /\ ~IsCloud /\ localItems = <<>>
             /\ UNCHANGED <<remoteItems, remoteOrders>>]_vars

\* ------------------------------------------------------------------ the local store at capacity

\* The origin's storage reaches its capacity: setItem may throw from here on.
FillStorage ==
    /\ ~quotaExceeded
    /\ quotaExceeded' = TRUE
    /\ ret' = NoCall
    /\ UNCHANGED <<supabase, savedConfig, realtimeChannel, subscriptions, feed, stores, now, nextItemId,
                   nextOrderId, addRun, clients, calls>>

\* Room is made again.
FreeStorage ==
    /\ quotaExceeded
    /\ quotaExceeded' = FALSE
    /\ ret' = NoCall
    /\ UNCHANGED <<supabase, savedConfig, realtimeChannel, subscriptions, feed, stores, now, nextItemId,
                   nextOrderId, addRun, clients, calls>>

InitLocal == Init /\ ~supabase

\* Local mode: the awaited mutations of both versions, over a store that may
\* be at capacity.
NextLocal ==
    \/ FillStorage
    \/ FreeStorage
    \/ \E c \in StockCandidates : AddOrUpdateItemInLocal(c) /\ UNCHANGED addRun
    \/ \E c \in StockCandidates : AddOrUpdateItemSync(c) /\ UNCHANGED addRun
    \/ \E id \in 1..MaxItems : DeleteItem(id)
    \/ \E lines \in SingleLines : PlaceOrderInLocal(lines, now)
    \/ \E lines \in SingleLines : PlaceOrderSync(lines, now)
    \/ \E id \in 1..MaxOrders, status \in Statuses : UpdateOrderStatus(id, status)
    \/ \E id \in 1..MaxOrders, status \in Statuses : UpdateOrderStatusSync(id, status)

SpecLocal == InitLocal /\ [][NextLocal]_vars

\* The operations that write the local store.
Mutations == {"addOrUpdateItem", "deleteItem", "placeOrder", "updateOrderStatus"}

\* ------------------------------------------------------------------ C18

\* C18: in local mode, when a durable write fails during addOrUpdateItem,
\* deleteItem, placeOrder or updateOrderStatus, the caller gets a failure
\* result and not an exception, and after such a placeOrder the stored catalog
\* and order collection are both unchanged.
C18_WriteFailureIsAResult ==
    [][(/\ ret'.mode = "local" /\ ret'.op \in Mutations
        /\ ret'.error \in {"exception", "storage"})
       => /\ ret'.error # "exception"
          /\ ~ret'.success
          /\ ret'.op = "placeOrder" => UNCHANGED <<localItems, localOrders>>]_vars

\* ------------------------------------------------------------------ C19

\* The call changed the store or, for updateOrderStatus, found its order.
Mutated ==
    /\ ret'.op \in Mutations /\ ret'.success
    /\ ret'.op = "updateOrderStatus" => \E o \in Recorded : o.id = ret'.orderId

\* C19: in local mode every successful mutation publishes the change signal,
\* and after the store has been written, so that the observers load the
\* post-mutation state; a placeOrder rejected by validation publishes nothing.
C19_SignalFollowsTheWrite ==
    [][ret'.mode = "local"
       => /\ Mutated => (ret'.signal /\ view' = LocalContent(localItems', localOrders'))
          /\ (ret'.op = "placeOrder" /\ ret'.error \in {"missing", "shortage"})
             => (~ret'.signal /\ UNCHANGED view)]_vars

\* An order has been placed and delivered in local mode and the observers
\* have loaded it as delivered.
C19_Witness ==
    /\ ~IsCloud
    /\ ret.op = "updateOrderStatus" /\ ret.signal
    /\ \E o \in view.orders : o.id = ret.orderId /\ o.status = "delivered"
    /\ view = LocalContent(localItems, localOrders)

\* ------------------------------------------------------------------ realtime

\* The callback of the channel: a row change arrives, notifyChange() is
\* called and the observers load the backend's content.
OnSignal ==
    /\ IsCloud /\ realtimeChannel
    /\ inbox > 0
    /\ inbox' = inbox - 1
    /\ view' = RemoteContent(remoteItems, remoteOrders)
    /\ ret' = [Ret("signal", "remote", TRUE, "none", 0, 0, "", FALSE) EXCEPT !.signal = TRUE]
    /\ UNCHANGED <<supabase, session, stores, now, nextItemId, nextOrderId, addRun,
                   clients, calls>>

\* A peer device inserts a row into pantry_items.
PeerInsert(newItem) ==
    /\ nextItemId <= MaxItems
    /\ remoteItems' = InsertItemRow(remoteItems, newItem, nextItemId)
    /\ nextItemId' = nextItemId + 1
    /\ inbox' = Published(TRUE)
    /\ ret' = NoCall
    /\ UNCHANGED <<supabase, session, view, localItems, localOrders, remoteOrders, now,
                   nextOrderId, addRun, clients, calls>>

\* A peer device deletes a row of pantry_items.
PeerDelete(id) ==
    /\ \E r \in remoteItems : r.id = id
    /\ remoteItems' = DeleteItemRow(remoteItems, id)
    /\ inbox' = Published(TRUE)
    /\ ret' = NoCall
    /\ UNCHANGED <<supabase, session, view, localItems, localOrders, remoteOrders, now,
                   nextItemId, nextOrderId, addRun, clients, calls>>

\* The page has loaded in remote mode.
InitRealtime == Init /\ supabase

\* Remote mode with peers: this process and a peer change the backend, the
\* channel brings the changes, the page is configured again (while nothing is
\* on its way) and reloaded (the read of the mounting observers succeeds).
NextRealtime ==
    \/ OnSignal
    \/ \E c \in StatusCandidates : PeerInsert(c)
    \/ \E id \in 1..MaxItems : PeerDelete(id)
    \/ \E c \in StatusCandidates : AddOrUpdateItemInRemote(c) /\ UNCHANGED addRun
    \/ \E lines \in SingleLines : PlaceOrderInRemote(lines, now)
    \/ InitSupabase("valid") /\ inbox = 0
    \/ Reload /\ view' = RemoteContent(remoteItems, remoteOrders)

\* A notification that is on its way arrives.
SpecRealtime == InitRealtime /\ [][NextRealtime]_vars /\ WF_vars(OnSignal)

\* ------------------------------------------------------------------ C20

\* What the observers show is not what the backend holds.
Stale == view # RemoteContent(remoteItems, remoteOrders)

\* C20: in remote mode every change of either table, by this process or by a
\* peer, is eventually followed by the change signal, so that the observers'
\* view, loaded on the signal, eventually equals the backend's content and no
\* polling is needed.
C20_ViewConverges == (IsCloud /\ Stale) ~> ~Stale

\* ------------------------------------------------------------------ C21

\* C21: deleteItem never raises; with an id that matches no item it leaves
\* the catalog as it is (same items, same order, same field values); with a
\* matching id it removes exactly that item; in both cases every other item
\* and every order stay as they are.
C21_DeleteRemovesExactlyTheItem ==
    [][ret'.op = "deleteItem"
       => /\ ret'.error # "exception"
          /\ Catalog' = { i \in Catalog : i.id # ret'.itemId }
          /\ (\A i \in Catalog : i.id # ret'.itemId) => UNCHANGED <<localItems, remoteItems>>
          /\ \A j \in 1..Len(localItems') : \E k \in j..Len(localItems) :
                localItems'[j] = localItems[k]
          /\ UNCHANGED <<localOrders, remoteOrders>>]_vars

\* ------------------------------------------------------------------ low stock

\* getLowStockItems(threshold = 10)
DefaultThreshold == 10

\* The thresholds a caller passes.
Thresholds == {1, DefaultThreshold}

\* The quantities of the stored items: none left, the least, the default
\* threshold and the first above it.
LowStockQuantities == {0, 1, DefaultThreshold, DefaultThreshold + 1}

\* The slip of counting an item that has run out as low on stock.
LowStockIncludingEmpty(items, threshold) ==
    LET Low(i) == i.quantity <= threshold /\ i.quantity >= 0 IN SelectSeq(items, Low)

\* items.filter(i => i.quantity <= threshold && i.quantity > 0)
LowStock(items, threshold) ==
    LET Low(i) == i.quantity <= threshold /\ i.quantity > 0 IN SelectSeq(items, Low)

\* The catalogs the reads are made on: up to MaxItems items of different names.
StoredCatalogs ==
    UNION { { [i \in 1..n |->
                 [id |-> i, name |-> IF i = 1 THEN <<"T">> ELSE <<"j">>,
                  quantity |-> q[i], unit |-> "cup", category |-> "Food",
                  expiryDate |-> NoDate]] :
              q \in [1..n -> LowStockQuantities] } : n \in 0..MaxItems }

InitLowStock ==
    /\ supabase \in BOOLEAN
    /\ \E items \in StoredCatalogs :
          /\ localItems = IF supabase THEN <<>> ELSE items
          /\ remoteItems = IF supabase
                           THEN { [id |-> items[i].id, name |-> items[i].name,
                                   quantity |-> items[i].quantity, unit |-> items[i].unit,
                                   category |-> items[i].category,
                                   expiry_date |-> items[i].expiryDate] : i \in DOMAIN items }
                           ELSE {}
    /\ localOrders = <<>>
    /\ remoteOrders = {}
    /\ now = 0
    /\ nextItemId = MaxItems + 1
    /\ nextOrderId = 1
    /\ ret = NoCall
    /\ addRun = NoRun
    /\ clients = [c \in Clients |-> IdleClient]
    /\ calls = [c \in CallIds |-> IdleCall]
    /\ savedConfig = IF supabase THEN "valid" ELSE NoConfig
    /\ realtimeChannel = FALSE
    /\ subscriptions = 0
    /\ quotaExceeded = FALSE
    /\ inbox = 0
    /\ view = [items |-> {}, orders |-> {}]

\* getLowStockItems(threshold), awaited; the caller keeps the ids in the order
\* returned.
GetLowStockItems(threshold) ==
    /\ \E failed \in BOOLEAN :
       \E items \in IF IsCloud THEN GetItemsRemote(remoteItems, failed)
                    ELSE { GetItemsLocal(localItems) } :
          /\ IsCloud \/ ~failed
          /\ LET low == LowStock(items, threshold)
             IN  ret' = [Ret("getLowStockItems", IF IsCloud THEN "remote" ELSE "local",
                             TRUE, "none", 0, 0, "", failed)
                         EXCEPT !.result = [i \in DOMAIN low |-> low[i].id],
                                !.threshold = threshold]
    /\ UNCHANGED <<supabase, session, feed, stores, now, nextItemId, nextOrderId, addRun,
                   clients, calls>>

\* Reading the low stock of a catalog, and deleting from it.
NextLowStock ==
    \/ \E t \in Thresholds : GetLowStockItems(t)
    \/ \E id \in 1..MaxItems : DeleteItem(id)

SpecLowStock == InitLowStock /\ [][NextLowStock]_vars

\* ------------------------------------------------------------------ C22

\* C22: getLowStockItems(threshold), its read of the catalog answered, returns
\* exactly the items of the catalog with 0 < quantity <= threshold, each once:
\* for threshold 10 every item with a quantity from 1 to 10 and no item with
\* quantity 0 or above 10.
C22_LowStockIsAboveZeroUpToThreshold ==
    (ret.op = "getLowStockItems" /\ ~ret.remoteErr)
    => /\ { ret.result[k] : k \in DOMAIN ret.result }
          = { i.id : i \in { j \in Catalog : 0 < j.quantity /\ j.quantity <= ret.threshold } }
       /\ \A k, l \in DOMAIN ret.result : ret.result[k] = ret.result[l] => k = l

\* getLowStockItems(10) on a catalog with one item at the threshold and one
\* that has run out returned the first alone.
C22_Witness ==
    /\ ret.op = "getLowStockItems" /\ ~ret.remoteErr /\ ret.threshold = DefaultThreshold
    /\ \E i, j \in Catalog : /\ i.quantity = DefaultThreshold /\ j.quantity = 0
                             /\ ret.result = <<i.id>>

\* ------------------------------------------------------------------ C23

\* C23: whenever the handle is present the realtime channel is subscribed,
\* after a configure that succeeded and after the auto-configuration of a page
\* load alike; an auto-configuration that fails leaves no handle.
C23_RemoteModeHasSubscription == supabase => realtimeChannel

\* ------------------------------------------------------------------ C24

\* C24: after any sequence of configure and teardown calls at most one
\* subscription stands: a configure unsubscribes the channel before it creates
\* the new one, and after a teardown none stands.
C24_AtMostOneSubscription ==
    /\ subscriptions \in {0, 1}
    /\ subscriptions = 1 <=> realtimeChannel
    /\ ret.op = "disconnectSupabase" => subscriptions = 0

\* A configure has replaced the channel of the configure before it.
C24_Witness ==
    /\ ret.op = "initSupabase" /\ ret.success /\ ret.unsubscribed
    /\ realtimeChannel /\ subscriptions = 1

\* ------------------------------------------------------------------ C25

\* The lines of the call on the item whose stock update was answered without
\* an error.
Written(itemId) ==
    { n \in DOMAIN ret'.lines :
        ret'.lines[n].itemId = itemId /\ ~ret'.updateErrs[n] }

\* The last of them.
LastWritten(itemId) ==
    CHOOSE n \in Written(itemId) : \A m \in Written(itemId) : m <= n

\* C25: in remote mode placeOrder inserts the order before it touches stock.
\* If the insert fails the call returns success = false and no quantity has
\* changed.  If the insert succeeds the call returns success = true and the
\* order is kept, whatever the stock updates answer: a failed update leaves
\* its item alone and the lines after it are still written.
C25_OrderFirstStockBestEffort ==
    [][(ret'.op = "placeOrder" /\ ret'.mode = "remote")
       => /\ ret'.error = "insert"
             => (~ret'.success /\ UNCHANGED <<remoteItems, remoteOrders>>)
          /\ ret'.error = "none"
             => /\ ret'.success
                /\ \E o \in remoteOrders' \ remoteOrders :
                      o.id = ret'.orderId /\ o.items = ret'.lines
                /\ \A r \in remoteItems :
                      IF Written(r.id) = {}
                      THEN r \in remoteItems'
                      ELSE [r EXCEPT !.quantity =
                               r.quantity - ret'.lines[LastWritten(r.id)].quantity]
                           \in remoteItems'
                /\ Cardinality(remoteItems') = Cardinality(remoteItems)]_vars

\* An order of two lines was placed in remote mode: the update of the first
\* line failed, the order is recorded and the second line was written.
C25_Witness ==
    /\ ret.op = "placeOrder" /\ ret.mode = "remote" /\ ret.success
    /\ ret.updateErrs = <<TRUE, FALSE>>
    /\ ret.lines[1].itemId # ret.lines[2].itemId
    /\ \E o \in remoteOrders : o.id = ret.orderId
    /\ \E r \in remoteItems : r.id = ret.lines[2].itemId /\ r.quantity = 0
    /\ \E r \in remoteItems : r.id = ret.lines[1].itemId /\ r.quantity > 0

\* ------------------------------------------------------------------ racing placements

\* Remote mode, several clients: placeOrder is the read of the items, the
\* insert of the order and one update per line, each a request of its own;
\* another client's requests may come between them.

\* The slip of deducting from what the row holds now.
StockWriteFromCurrent(fetched, current, requested) == current - requested

\* update({ quantity: item.quantity - orderItem.quantity }): item is the one
\* read before the validation.
StockWrite(fetched, current, requested) == fetched - requested

\* The lines the racing clients order: up to the whole stock of an item.
RaceLines == [itemId : 1..MaxItems, quantity : 1..MaxStock]

\* The orders the racing clients place: one line of any quantity, or several
\* lines of one unit each.
RaceLineSeqs ==
    { l \in UNION { [1..n -> RaceLines] : n \in 1..MaxLines } :
        Len(l) > 1 => \A n \in DOMAIN l : l[n].quantity = 1 }

\* The stock the clients race for: up to MaxItems items of different names.
RaceCatalogs ==
    UNION { { { [id |-> i, name |-> IF i = 1 THEN <<"T">> ELSE <<"j">>,
                 quantity |-> q[i], unit |-> "cup", category |-> "Food",
                 expiry_date |-> NoDate] : i \in 1..n } :
              q \in [1..n -> 1..MaxStock] } : n \in 1..MaxItems }

\* The backend holds a catalog; addRun keeps what was stocked of item 1.
InitPlaceRace ==
    /\ supabase = TRUE
    /\ remoteItems \in RaceCatalogs
    /\ addRun = [key |-> <<Normalize(<<"T">>), "cup">>,
                 sum |-> (CHOOSE r \in remoteItems : r.id = 1).quantity]
    /\ localItems = <<>>
    /\ localOrders = <<>>
    /\ remoteOrders = {}
    /\ now = 0
    /\ nextItemId = MaxItems + 1
    /\ nextOrderId = 1
    /\ ret = NoCall
    /\ clients = [c \in Clients |-> IdleClient]
    /\ calls = [c \in CallIds |-> IdleCall]
    /\ savedConfig = "valid"
    /\ realtimeChannel = FALSE
    /\ subscriptions = 0
    /\ quotaExceeded = FALSE
    /\ inbox = 0
    /\ view = [items |-> {}, orders |-> {}]

\* const items = await getItems(), and the validation loop over what was read.
RemotePlaceFetch(c, lines) ==
    /\ IsCloud
    /\ clients[c].pc = "idle"
    /\ nextOrderId <= MaxOrders
    /\ \E fetchFailed \in BOOLEAN :
       \E items \in GetItemsRemote(remoteItems, fetchFailed) :
          LET order == NewOrder(nextOrderId, lines, now)
              bad == FirstBadLine(items, lines)
          IN  IF bad # 0
              THEN /\ ret' = [Ret("placeOrder", "remote", FALSE,
                                  ValidationError(items, lines), bad, order.id, "",
                                  fetchFailed)
                              EXCEPT !.lines = lines, !.fetchErr = fetchFailed]
                   /\ UNCHANGED <<clients, nextOrderId>>
              ELSE /\ clients' = [clients EXCEPT ![c] =
                                     [pc |-> "insert", order |-> order, items |-> items,
                                      line |-> 1, errs |-> <<>>]]
                   /\ nextOrderId' = nextOrderId + 1
                   /\ UNCHANGED ret
    /\ UNCHANGED <<supabase, session, feed, stores, now, nextItemId, addRun, calls>>

\* await supabase.from('orders').insert([...]); on its error the call returns.
RemotePlaceInsert(c) ==
    /\ IsCloud
    /\ clients[c].pc = "insert"
    /\ LET order == clients[c].order
       IN  \/ /\ UNCHANGED remoteOrders
              /\ clients' = [clients EXCEPT ![c] = IdleClient]
              /\ ret' = [Ret("placeOrder", "remote", FALSE, "insert", 0, order.id, "", TRUE)
                         EXCEPT !.lines = order.items]
           \/ /\ remoteOrders' = InsertOrderRow(remoteOrders, order)
              /\ clients' = [clients EXCEPT ![c].pc = "deduct"]
              /\ UNCHANGED ret
    /\ inbox' = Published(remoteOrders' # remoteOrders)
    /\ UNCHANGED <<supabase, session, view, localItems, localOrders, remoteItems, now,
                   nextItemId, nextOrderId, addRun, calls>>

\* One turn of the deduction loop: the update of the line's item; after the
\* last line the call returns success.
RemotePlaceDeduct(c) ==
    /\ IsCloud
    /\ clients[c].pc = "deduct"
    /\ LET order == clients[c].order
           n == clients[c].line
           l == order.items[n]
           k == ItemIndex(clients[c].items, l.itemId)
       IN  \E failed \in BOOLEAN :
              /\ remoteItems' =
                    IF k > 0 /\ ~failed
                    THEN { IF r.id = l.itemId
                           THEN [r EXCEPT !.quantity =
                                    StockWrite(clients[c].items[k].quantity, r.quantity,
                                               l.quantity)]
                           ELSE r : r \in remoteItems }
                    ELSE remoteItems
              /\ IF n < Len(order.items)
                 THEN /\ clients' = [clients EXCEPT ![c].line = n + 1,
                                                    ![c].errs = Append(@, failed)]
                      /\ UNCHANGED ret
                 ELSE /\ clients' = [clients EXCEPT ![c] = IdleClient]
                      /\ ret' = [Ret("placeOrder", "remote", TRUE, "none", 0, order.id,
                                     "", failed \/ \E m \in DOMAIN clients[c].errs :
                                                      clients[c].errs[m])
                                 EXCEPT !.lines = order.items,
                                        !.updateErrs = Append(clients[c].errs, failed)]
    /\ inbox' = Published(remoteItems' # remoteItems)
    /\ UNCHANGED <<supabase, session, view, localItems, localOrders, remoteOrders, now,
                   nextItemId, nextOrderId, addRun, calls>>

NextPlaceRace ==
    \/ \E c \in Clients, lines \in RaceLineSeqs : RemotePlaceFetch(c, lines)
    \/ \E c \in Clients : RemotePlaceInsert(c)
    \/ \E c \in Clients : RemotePlaceDeduct(c)

SpecPlaceRace == InitPlaceRace /\ [][NextPlaceRace]_vars

\* ------------------------------------------------------------------ C26

\* The quantity the client read for the item of the line it is writing.
FetchedFor(c) ==
    LET l == clients[c].order.items[clients[c].line]
    IN  clients[c].items[ItemIndex(clients[c].items, l.itemId)].quantity

\* C26: in remote mode nothing ties the commit of placeOrder to its
\* validation: a client past its validation always records its order and
\* returns success, and each of its stock updates leaves the item either as
\* it is (the update failed) or at the quantity the client read minus its
\* line, whatever another client has written since.  Two clients that
\* validate against the same stock therefore both succeed, and the stock
\* shows one deduction only.
C26_CommitIsNotTiedToValidation ==
    [][\A c \in Clients :
          (clients[c].pc = "deduct" /\ clients'[c] # clients[c])
          => LET l == clients[c].order.items[clients[c].line]
             IN  /\ \A r \in remoteItems : \E w \in remoteItems' :
                       /\ w.id = r.id
                       /\ IF r.id = l.itemId
                          THEN w.quantity \in {r.quantity, FetchedFor(c) - l.quantity}
                          ELSE w = r
                 /\ clients'[c].pc = "idle"
                    => /\ ret'.success /\ ret'.orderId = clients[c].order.id
                       /\ \E o \in remoteOrders' : o.id = ret'.orderId]_vars

\* Two clients ordered from item 1, each no more than was stocked and together
\* more: both orders are recorded, one client has returned success with its
\* update answered, and the other, which read the stock before that update,
\* is past its validation and its insert.
C26_Witness ==
    \E c \in Clients :
       /\ clients[c].pc = "deduct" /\ clients[c].line = 1
       /\ Len(clients[c].order.items) = 1 /\ Len(ret.lines) = 1
       /\ ret.op = "placeOrder" /\ ret.success /\ ret.updateErrs = <<FALSE>>
       /\ ret.orderId # clients[c].order.id
       /\ clients[c].order.items[1].itemId = 1 /\ ret.lines[1].itemId = 1
       /\ FetchedFor(c) = addRun.sum
       /\ clients[c].order.items[1].quantity <= addRun.sum
       /\ ret.lines[1].quantity <= addRun.sum
       /\ clients[c].order.items[1].quantity + ret.lines[1].quantity > addRun.sum
       /\ \E r \in remoteItems : r.id = 1 /\ r.quantity = addRun.sum - ret.lines[1].quantity
       /\ \E o1, o2 \in remoteOrders : o1.id = ret.orderId /\ o2.id = clients[c].order.id

\* ------------------------------------------------------------------ C27

\* C27: in remote mode, under every interleaving of the placeOrder calls of
\* concurrent clients, the quantity stored for every item stays at or above
\* zero: a stock update stores the quantity read minus the quantity of a line
\* that the validation compared with the quantity read.
C27_RacingOrdersKeepStockNonNegative ==
    \A r \in remoteItems : r.quantity >= 0

\* Both clients have read the stock of item 1 and passed their validation,
\* one has taken all of it and the other is about to write.
C27_Witness ==
    \E c \in Clients :
       /\ clients[c].pc = "deduct" /\ clients[c].line = 1
       /\ clients[c].order.items[1].itemId = 1
       /\ FetchedFor(c) > 0
       /\ \E r \in remoteItems : r.id = 1 /\ r.quantity = 0
       /\ \E o \in remoteOrders : o.id # clients[c].order.id

\* ------------------------------------------------------------------ forced seeding

RECURSIVE DeleteAllTogether(_, _, _)
\* Promise.all(items.map(item => deleteItem(item.id))), local branch: every
\* call runs up to its await getItems(), whose local branch has read
\* localStorage by then, before any of them goes on; then each in turn writes
\* what it read without its own item.
DeleteAllTogether(read, ids, stored) ==
    IF ids = <<>> THEN stored
    ELSE DeleteAllTogether(read, Tail(ids), DeleteItemLocal(read, Head(ids)))

\* The rows left by the deleteItem calls of the remote branch: each request
\* is answered or fails.
DeleteAllRows(table) == { table \ answered : answered \in SUBSET table }

\* forceSeedData(), awaited: the read of the items, one deleteItem per item
\* read, all issued together, and then seedInitialData().
ForceSeedData ==
    /\ \/ /\ ~IsCloud
          /\ LET items == GetItemsLocal(localItems)
                 left == DeleteAllTogether(GetItemsLocal(localItems),
                                           [i \in DOMAIN items |-> items[i].id],
                                           localItems)
             IN  IF Len(GetItemsLocal(left)) > 0
                 THEN /\ localItems' = left
                      /\ UNCHANGED nextItemId
                 ELSE /\ nextItemId + Len(SampleItems) - 1 <= 3 * MaxItems
                      /\ LET r == SeedLocal(GetItemsLocal(left), SampleItems, nextItemId)
                         IN  /\ localItems' = r.items
                             /\ nextItemId' = r.nextId
          /\ view' = LocalContent(localItems', localOrders)
          /\ ret' = [Ret("forceSeedData", "local", TRUE, "none", 0, 0, "", FALSE)
                     EXCEPT !.signal = TRUE]
          /\ UNCHANGED <<remoteItems, inbox>>
       \/ /\ IsCloud
          /\ \E left \in DeleteAllRows(remoteItems), failed \in BOOLEAN :
             \E existing \in GetItemsRemote(left, failed) :
                /\ IF Len(existing) > 0
                   THEN /\ remoteItems' = left
                        /\ UNCHANGED nextItemId
                   ELSE /\ nextItemId + Len(SampleItems) - 1 <= 3 * MaxItems
                        /\ \A r \in left : r.quantity < MaxStock
                        /\ \E t \in SeedRemote(left, SampleItems, nextItemId) :
                              /\ remoteItems' = t.table
                              /\ nextItemId' = t.nextId
                /\ ret' = Ret("forceSeedData", "remote", TRUE, "none", 0, 0, "", failed)
          /\ inbox' = Published(remoteItems' # remoteItems)
          /\ UNCHANGED <<localItems, view>>
    /\ UNCHANGED <<supabase, session, localOrders, remoteOrders, now, nextOrderId,
                   addRun, clients, calls>>

\* The local catalog is thrown away and seeded again, between awaited calls
\* that add and delete items.
NextForceSeed ==
    \/ ForceSeedData
    \/ \E c \in StockCandidates : AddOrUpdateItemInLocal(c) /\ UNCHANGED addRun
    \/ \E id \in 1..(3 * MaxItems) : DeleteItem(id)

SpecForceSeed == InitLocal /\ [][NextForceSeed]_vars

\* ------------------------------------------------------------------ C28

\* What an item is apart from its identifier.
Content(i) ==
    [name |-> i.name, quantity |-> i.quantity, unit |-> i.unit,
     category |-> i.category, expiryDate |-> i.expiryDate]

\* C28: forceSeedData in local mode, on a catalog of any number of items,
\* ends with the starter catalog: every item stored before is gone and the
\* sample items, and nothing else, are there.
C28_ForcedSeedLeavesTheStarterCatalog ==
    [][(ret'.op = "forceSeedData" /\ ret'.mode = "local")
       => /\ \A i \in Catalog' : \A j \in Catalog : i.id # j.id
          /\ { Content(i) : i \in Catalog' }
             = { SampleItems[n] : n \in DOMAIN SampleItems }
          /\ Len(localItems') = Len(SampleItems)]_vars

\* ------------------------------------------------------------------ C29

\* C29: updateOrderStatus changes at most the status and the completedAt of
\* the one order of the given id: every other order, the place of every order
\* in the collection and every item of the catalog stay as they are (a
\* cancelled order does not give its quantities back), and when no order has
\* the id the order collection is unchanged and nothing is raised.
C29_StatusUpdateTouchesOneOrder ==
    [][ret'.op = "updateOrderStatus"
       => /\ ret'.error # "exception"
          /\ UNCHANGED <<localItems, remoteItems>>
          /\ \A o \in Recorded : \E p \in Recorded' :
                /\ Core(p) = Core(o)
                /\ o.id # ret'.orderId => p = o
          /\ Cardinality(Recorded') = Cardinality(Recorded)
          /\ Len(localOrders') = Len(localOrders)
          /\ \A i \in DOMAIN localOrders : localOrders'[i].id = localOrders[i].id
          /\ (\A o \in Recorded : o.id # ret'.orderId)
             => UNCHANGED <<localOrders, remoteOrders>>]_vars

\* One of two recorded orders has been cancelled: the other is still pending
\* and the item it took is still out of stock.
C29_Witness ==
    /\ ret.op = "updateOrderStatus"
    /\ \E o, p \in Recorded :
          /\ o.id = ret.orderId /\ o.status = "cancelled" /\ o.completedAt # NoTime
          /\ p.id # o.id /\ p.status = "pending"
          /\ \E i \in Catalog : i.id = o.items[1].itemId /\ i.quantity = 0

\* ------------------------------------------------------------------ the two modes side by side

\* One sequence of awaited calls is given to two services that start from
\* empty stores, one in local mode (localItems, localOrders) and one in remote
\* mode (remoteItems, remoteOrders); no read or write fails.  ret.success is
\* what the local call returns and ret.remoteSuccess what the remote one does.

\* What the pair of calls leaves for their callers.
TwinRet(op, localSuccess, remoteSuccess) ==
    [Ret(op, "both", localSuccess, "none", 0, 0, "", FALSE)
     EXCEPT !.remoteSuccess = remoteSuccess]

\* addOrUpdateItem(newItem) in both modes.
TwinAddOrUpdateItem(newItem) ==
    /\ \E items \in GetItemsRemote(remoteItems, FALSE) :
          LET l == AddOrUpdateItemLocal(GetItemsLocal(localItems), newItem, nextItemId)
              k == MatchIndex(items, newItem)
          IN  /\ \A i \in DOMAIN l.items : l.items[i].quantity <= MaxStock
              /\ k > 0 => items[k].quantity + newItem.quantity <= MaxStock
              /\ (k = 0 \/ l.message = "Added") => nextItemId <= MaxItems
              /\ localItems' = l.items
              /\ remoteItems' = IF k > 0 THEN UpdateItemRow(remoteItems, items[k], newItem)
                                ELSE InsertItemRow(remoteItems, newItem, nextItemId)
              /\ nextItemId' = IF k = 0 \/ l.message = "Added" THEN nextItemId + 1
                               ELSE nextItemId
    /\ ret' = TwinRet("addOrUpdateItem", TRUE, TRUE)
    /\ UNCHANGED <<supabase, session, feed, localOrders, remoteOrders, now, nextOrderId,
                   addRun, clients, calls>>

\* deleteItem(id) in both modes.
TwinDeleteItem(id) ==
    /\ localItems' = DeleteItemLocal(GetItemsLocal(localItems), id)
    /\ remoteItems' = DeleteItemRow(remoteItems, id)
    /\ ret' = TwinRet("deleteItem", TRUE, TRUE)
    /\ UNCHANGED <<supabase, session, feed, localOrders, remoteOrders, now, nextItemId,
                   nextOrderId, addRun, clients, calls>>

\* placeOrder(order) in both modes.
TwinPlaceOrder(lines) ==
    /\ nextOrderId <= MaxOrders
    /\ \E items \in GetItemsRemote(remoteItems, FALSE) :
          LET order == NewOrder(nextOrderId, lines, now)
              l == PlaceOrderLocal(GetItemsLocal(localItems), GetOrdersLocal(localOrders),
                                   order)
              bad == FirstBadLine(items, lines)
          IN  /\ localItems' = l.items
              /\ localOrders' = l.orders
              /\ remoteOrders' = IF bad # 0 THEN remoteOrders
                                 ELSE InsertOrderRow(remoteOrders, order)
              /\ remoteItems' = IF bad # 0 THEN remoteItems
                                ELSE DeductRemote(remoteItems, items, lines,
                                                  [n \in DOMAIN lines |-> FALSE])
              /\ ret' = [TwinRet("placeOrder", l.success, bad = 0)
                         EXCEPT !.lines = lines, !.orderId = order.id]
    /\ nextOrderId' = nextOrderId + 1
    /\ UNCHANGED <<supabase, session, feed, now, nextItemId, addRun, clients, calls>>

\* updateOrderStatus(orderId, status) in both modes.
TwinUpdateOrderStatus(orderId, status) ==
    /\ localOrders' = UpdateOrderStatusLocal(GetOrdersLocal(localOrders), orderId, status,
                                             now)
    /\ remoteOrders' = UpdateOrderRow(remoteOrders, orderId, status, now)
    /\ ret' = [TwinRet("updateOrderStatus", TRUE, TRUE) EXCEPT !.orderId = orderId]
    /\ UNCHANGED <<supabase, session, feed, localItems, remoteItems, now, nextItemId,
                   nextOrderId, addRun, clients, calls>>

NextTwin ==
    \/ \E c \in StockCandidates : TwinAddOrUpdateItem(c)
    \/ \E id \in 1..MaxItems : TwinDeleteItem(id)
    \/ \E lines \in LineSeqs : TwinPlaceOrder(lines)
    \/ \E id \in 1..MaxOrders, status \in Statuses : TwinUpdateOrderStatus(id, status)

SpecTwin == InitLocal /\ [][NextTwin]_vars

\* ------------------------------------------------------------------ C30

\* What the two modes are compared on, for an order.
OrderContent(o) ==
    [id |-> o.id, items |-> o.items, status |-> o.status,
     completed |-> o.completedAt # NoTime]

\* C30: the service is mode-transparent: after every sequence of awaited
\* addOrUpdateItem, deleteItem, placeOrder and updateOrderStatus calls with no
\* storage error, given to the local and to the remote store from equal
\* contents, the last call has returned the same success flag in both modes
\* and the two stores hold the same items (name, unit, quantity, category,
\* expiryDate) and the same orders (items, status, completedAt set or not).
C30_ModesAgree ==
    /\ ret.mode = "both" => ret.success = ret.remoteSuccess
    /\ { localItems[i] : i \in DOMAIN localItems } = { RowToItem(r) : r \in remoteItems }
    /\ { OrderContent(localOrders[i]) : i \in DOMAIN localOrders }
       = { OrderContent(RowToOrder(r)) : r \in remoteOrders }

====
